---- MODULE Spec2Model ----
(***************************************************************************)
(* Model of ChainTracerSinglePass (src/chain_tracer_single_pass.py): the   *)
(* single-pass backward correlator that builds lock-invalidation chains    *)
(* from a stream of LogEntry records.                                      *)
(*                                                                         *)
(* Representation.                                                          *)
(*  - Optional[str] fields hold a string or None; None is the string None  *)
(*    below and Truthy is Python truthiness of an Optional[str].           *)
(*  - Optional[List[str]] fields (lock_id, break_lock_id) are sequences;   *)
(*    the correlator only tests their truthiness, so None and [] are <<>>. *)
(*  - issues is a sequence of text fragments; the substring test and the   *)
(*    table-name regex are computed over the fragments.                    *)
(*  - timestamps are numbers ordered as the ISO strings are; 0 is ''.      *)
(*  - LogEntry objects are referred to by their position in the scanned    *)
(*    stream (0 is None); chain objects live in heap and are referred to   *)
(*    by their position in it, so that several indices can share a chain.  *)
(*  - a Python dict is a sequence of [k, v] pairs in insertion order.      *)
(***************************************************************************)
EXTENDS Integers, Sequences, FiniteSets, TLC

\* Longest record stream scanned.
MaxLen == 4

None == "<None>"

Truthy(x) == x # None /\ x # ""

NoEntry == 0

\* parse_line has not been called.
Pending == [called |-> FALSE]

----------------------------------------------------------------------------
\* Python dict: insertion-ordered key/value pairs.

DictHas(d, key) == \E i \in 1..Len(d) : d[i].k = key

DictGet(d, key, default) ==
    IF DictHas(d, key)
    THEN d[CHOOSE i \in 1..Len(d) : d[i].k = key].v
    ELSE default

DictPut(d, key, val) ==
    IF DictHas(d, key)
    THEN [i \in 1..Len(d) |-> IF d[i].k = key THEN [k |-> key, v |-> val] ELSE d[i]]
    ELSE Append(d, [k |-> key, v |-> val])

DictPop(d, key) == SelectSeq(d, LAMBDA p : p.k # key)

DictValues(d) == [i \in 1..Len(d) |-> d[i].v]

DictKeys(d) == {d[i].k : i \in 1..Len(d)}

SeqRange(s) == {s[i] : i \in 1..Len(s)}

----------------------------------------------------------------------------
\* LogEntry (src/log_parser.py) restricted to the fields the correlator reads.

LogEntry ==
    [timestamp |-> 0, begin_tx |-> FALSE, session_id |-> None, trace_id |-> None,
     phy_tx_id |-> None, lock_id |-> <<>>, status |-> None, query_text |-> None,
     issues |-> <<>>, break_lock_id |-> <<>>, tx_id |-> None, query_action |-> None,
     raw_line |-> ""]

TLI_MARKER == "Transaction locks invalidated"

\* The backtick character of the issues text.
BT == "<backtick>"

\* issues texts: the marker followed by a Table: marker and a backtick-quoted
\* path, the marker alone, and a diagnostic without the marker.
IssuesTable(t) == <<TLI_MARKER, ". ", "Table:", " ", BT, t, BT>>
IssuesNoTable == <<TLI_MARKER, ".">>
IssuesOther == <<"Execution", " failed">>

\* An invalidation record as the DATA_INTEGRITY component logs it.
Inval(raw, trace, session, tx, issues) ==
    [LogEntry EXCEPT !.raw_line = raw, !.trace_id = trace, !.session_id = session,
                     !.tx_id = tx, !.status = "ABORTED", !.issues = issues]

\* A record of a trace whose status is LOCKS_BROKEN.
LocksBroken(raw, trace, locks, phy) ==
    [LogEntry EXCEPT !.raw_line = raw, !.trace_id = trace, !.status = "LOCKS_BROKEN",
                     !.lock_id = locks, !.phy_tx_id = phy]

\* A break event: BreakLocks: [..] of physical transaction phy.
BreakEvent(raw, locks, phy) ==
    [LogEntry EXCEPT !.raw_line = raw, !.break_lock_id = locks, !.phy_tx_id = phy]

\* A query record: QueryAction and QueryText at time ts.
Query(raw, ts, session, trace, tx, begin) ==
    [LogEntry EXCEPT !.raw_line = raw, !.timestamp = ts, !.session_id = session,
                     !.trace_id = trace, !.tx_id = tx, !.begin_tx = begin,
                     !.query_action = "QUERY_ACTION_EXECUTE",
                     !.query_text = "SELECT 1"]

\* Any record carrying identifiers only.
Ids(raw, phy, trace, session, tx) ==
    [LogEntry EXCEPT !.raw_line = raw, !.phy_tx_id = phy, !.trace_id = trace,
                     !.session_id = session, !.tx_id = tx]

----------------------------------------------------------------------------
\* The correlator's state.  The operators below take and return the record
\* Self of the instance fields (plus the heap of chain objects and the
\* warnings written to the logging module).

VARIABLES
    pool,                         \* the records the stream may deliver
    collect_details,              \* argument of find_all_invalidation_chains
    scanned,                      \* self.log_entries consumed so far
    heap,                         \* every LockInvalidationChain object created
    chains,                       \* self.chains: victim trace id -> chain
    queries_by_tx,                \* self.queries_by_tx: tx id -> [entry]
    session_current_tx,           \* self._session_current_tx: session -> tx id
    chains_by_lock_id,            \* lock id -> chain
    chains_by_culprit_phy_tx_id,  \* phy tx id -> [chain]
    chains_by_culprit_trace_id,   \* trace id -> [chain]
    entries_by_trace,             \* trace id -> entry
    warnings,                     \* logging.warning calls, in order
    returned,                     \* the list find_all_invalidation_chains returns
    pc,                           \* "scan" in the for loop, "done" after return
    format,                       \* LogParser.format
    line,                         \* the line handed to parse_line
    written,                      \* the fields the line was written from
    parsed,                       \* what parse_line returned, Pending before the call
    stream,                       \* the lines of the input stream
    line_num,                     \* lines consumed by the loop of parse_stream
    yielded,                      \* the entries parse_stream has yielded
    printed,                      \* the warnings parse_stream has printed
    sorted                        \* what sort_log_stream yields, Pending before the call

vars ==
    <<pool, collect_details, scanned, heap, chains, queries_by_tx,
      session_current_tx, chains_by_lock_id, chains_by_culprit_phy_tx_id,
      chains_by_culprit_trace_id, entries_by_trace, warnings, returned, pc,
      format, line, written, parsed, stream, line_num, yielded, printed, sorted>>

\* The variables of the parser.
parser_vars == <<format, line, written, parsed>>

\* No input pipeline is running.
StreamIdle ==
    /\ stream = <<>>
    /\ line_num = 0
    /\ yielded = <<>>
    /\ printed = <<>>
    /\ sorted = Pending

\* The variables of the input pipeline.
stream_vars == <<stream, line_num, yielded, printed, sorted>>

\* The variables of the correlator run.
tracer_vars ==
    <<pool, collect_details, scanned, heap, chains, queries_by_tx,
      session_current_tx, chains_by_lock_id, chains_by_culprit_phy_tx_id,
      chains_by_culprit_trace_id, entries_by_trace, warnings, returned, pc>>

Self ==
    [heap |-> heap, chains |-> chains, queries_by_tx |-> queries_by_tx,
     session_current_tx |-> session_current_tx,
     chains_by_lock_id |-> chains_by_lock_id,
     chains_by_culprit_phy_tx_id |-> chains_by_culprit_phy_tx_id,
     chains_by_culprit_trace_id |-> chains_by_culprit_trace_id,
     entries_by_trace |-> entries_by_trace, warnings |-> warnings]

\* LockInvalidationChain (src/chain_models.py) with its defaults.
LockInvalidationChain(session, trace, tx, entry, table, details) ==
    [victim_session_id |-> session, victim_trace_id |-> trace, victim_tx_id |-> tx,
     victim_entry |-> entry, table_name |-> table, lock_id |-> None,
     culprit_phy_tx_id |-> None, culprit_trace_id |-> None,
     culprit_session_id |-> None, victim_phy_tx_id |-> None,
     culprit_entry |-> NoEntry, culprit_tx_id |-> None, victim_queries |-> <<>>,
     culprit_queries |-> <<>>, log_details |-> details]

\* logging.warning(...): the message kind and, for the final audit, the
\* names of the missing fields.
Warn(s, msg) == [s EXCEPT !.warnings = Append(@, [msg |-> msg, missing |-> <<>>])]

\* Mutant: log_details is a list, a line is appended on every touch.
AddDetailAgain(s, c, raw) ==
    IF s.heap[c].log_details # <<>>
    THEN [s EXCEPT !.heap[c].log_details = Append(@, raw)]
    ELSE s

\* chain.log_details.add(entry.raw_line) when log_details is not None; the
\* OrderedSet is created non-empty, so <<>> stands for None.
AddDetail(s, c, raw) ==
    IF s.heap[c].log_details # <<>> /\ raw \notin SeqRange(s.heap[c].log_details)
    THEN [s EXCEPT !.heap[c].log_details = Append(@, raw)]
    ELSE s

\* "Transaction locks invalidated" in entry.issues
ContainsMarker(issues) == \E i \in 1..Len(issues) : issues[i] = TLI_MARKER

\* Mutant: the status alone decides.
is_aborted_only(e) == e.status = "ABORTED"

is_transaction_locks_invalidated(e) ==
    /\ e.issues # <<>>
    /\ ContainsMarker(e.issues)
    /\ e.status = "ABORTED"

\* re.search(r'Table:\s*`([^`]+)`', issues): the leftmost "Table:" followed,
\* after optional blanks, by a backtick-quoted non-empty path.
TableAt(issues, i) ==
    LET j == IF i + 1 <= Len(issues) /\ issues[i + 1] = " " THEN i + 2 ELSE i + 1
    IN  IF /\ issues[i] = "Table:"
           /\ j + 2 <= Len(issues)
           /\ issues[j] = BT /\ issues[j + 1] # BT /\ issues[j + 2] = BT
        THEN issues[j + 1]
        ELSE None

extract_table_name(issues) ==
    IF issues = <<>> THEN None
    ELSE LET hits == {i \in 1..Len(issues) : TableAt(issues, i) # None}
         IN  IF hits = {} THEN None
             ELSE TableAt(issues, CHOOSE i \in hits : \A j \in hits : i <= j)

----------------------------------------------------------------------------
\* Mutant: the new chain is added beside the chain already stored for the
\* trace id.
create_new_chain_beside(s, e, idx, details) ==
    IF ~Truthy(e.trace_id) \/ ~Truthy(e.session_id)
    THEN s
    ELSE LET chain == LockInvalidationChain(
                        e.session_id, e.trace_id,
                        IF e.tx_id # "Unknown" THEN e.tx_id ELSE None,
                        idx, extract_table_name(e.issues),
                        IF details THEN <<e.raw_line>> ELSE <<>>)
             id == Len(s.heap) + 1
         IN  [s EXCEPT !.heap = Append(@, chain),
                       !.chains = Append(@, [k |-> e.trace_id, v |-> id])]

\* Mutant: no check of the trace id and session id.
create_new_chain_unguarded(s, e, idx, details) ==
    LET chain == LockInvalidationChain(
                    e.session_id, e.trace_id,
                    IF e.tx_id # "Unknown" THEN e.tx_id ELSE None,
                    idx, extract_table_name(e.issues),
                    IF details THEN <<e.raw_line>> ELSE <<>>)
        id == Len(s.heap) + 1
    IN  [s EXCEPT !.heap = Append(@, chain),
                  !.chains = DictPut(@, e.trace_id, id)]

\* _create_new_chain: idx is the position of entry e in the stream.
create_new_chain(s, e, idx, details) ==
    IF ~Truthy(e.trace_id) \/ ~Truthy(e.session_id)
    THEN s
    ELSE LET chain == LockInvalidationChain(
                        e.session_id, e.trace_id,
                        IF e.tx_id # "Unknown" THEN e.tx_id ELSE None,
                        idx, extract_table_name(e.issues),
                        IF details THEN <<e.raw_line>> ELSE <<>>)
             id == Len(s.heap) + 1
         IN  [s EXCEPT !.heap = Append(@, chain),
                       !.chains = DictPut(@, e.trace_id, id)]

\* Mutant: the last lock id of the list is adopted.
fill_lock_id_last(s, e) ==
    LET c == DictGet(s.chains, e.trace_id, 0)
    IN  IF c = 0 THEN Warn(s, "no chain for victim TraceId")
        ELSE LET s1 == AddDetail(s, c, e.raw_line)
             IN  IF Truthy(s1.heap[c].lock_id)
                 THEN Warn(s1, "already has LockId")
                 ELSE IF e.lock_id = <<>>
                 THEN Warn(s1, "expected LockId")
                 ELSE LET s2 == IF Len(e.lock_id) > 1
                                THEN Warn(s1, "several LockId")
                                ELSE s1
                          last_lock_id == e.lock_id[Len(e.lock_id)]
                      IN  [s2 EXCEPT !.heap[c].lock_id = last_lock_id,
                                     !.chains_by_lock_id =
                                         DictPut(@, last_lock_id, c)]

\* Mutant: the chain is registered under the lock id without taking it.
fill_lock_id_indexonly(s, e) ==
    LET c == DictGet(s.chains, e.trace_id, 0)
    IN  IF c = 0 THEN Warn(s, "no chain for victim TraceId")
        ELSE LET s1 == AddDetail(s, c, e.raw_line)
             IN  IF Truthy(s1.heap[c].lock_id)
                 THEN Warn(s1, "already has LockId")
                 ELSE IF e.lock_id = <<>>
                 THEN Warn(s1, "expected LockId")
                 ELSE LET s2 == IF Len(e.lock_id) > 1
                                THEN Warn(s1, "several LockId")
                                ELSE s1
                          first_lock_id == e.lock_id[1]
                      IN  [s2 EXCEPT !.chains_by_lock_id =
                                         DictPut(@, first_lock_id, c)]

\* _fill_lock_id
fill_lock_id(s, e) ==
    LET c == DictGet(s.chains, e.trace_id, 0)
    IN  IF c = 0 THEN Warn(s, "no chain for victim TraceId")
        ELSE LET s1 == AddDetail(s, c, e.raw_line)
             IN  IF Truthy(s1.heap[c].lock_id)
                 THEN Warn(s1, "already has LockId")
                 ELSE IF e.lock_id = <<>>
                 THEN Warn(s1, "expected LockId")
                 ELSE LET s2 == IF Len(e.lock_id) > 1
                                THEN Warn(s1, "several LockId")
                                ELSE s1
                          first_lock_id == e.lock_id[1]
                      IN  [s2 EXCEPT !.heap[c].lock_id = first_lock_id,
                                     !.chains_by_lock_id =
                                         DictPut(@, first_lock_id, c)]

\* _fill_victim_phy_tx_id
fill_victim_phy_tx_id(s, e) ==
    LET c == DictGet(s.chains, e.trace_id, 0)
    IN  IF c = 0 THEN Warn(s, "no chain for victim TraceId")
        ELSE LET s1 == AddDetail(s, c, e.raw_line)
             IN  IF Truthy(s1.heap[c].victim_phy_tx_id)
                 THEN Warn(s1, "already has victim PhyTxId")
                 ELSE IF ~Truthy(e.phy_tx_id)
                 THEN Warn(s1, "expected PhyTxId")
                 ELSE [s1 EXCEPT !.heap[c].victim_phy_tx_id = e.phy_tx_id]

\* Mutant: the victim's own physical transaction is not skipped.
culprit_phy_tx_step_noskip(s, e, i) ==
    LET lock == e.break_lock_id[i]
        c == DictGet(s.chains_by_lock_id, lock, 0)
    IN  IF c = 0 THEN s
        ELSE LET s1 == AddDetail(s, c, e.raw_line)
                 chain == s1.heap[c]
             IN  IF Truthy(chain.culprit_phy_tx_id)
                    /\ chain.culprit_phy_tx_id # e.phy_tx_id
                 THEN Warn(s1, "already has culprit PhyTxId")
                 ELSE IF ~Truthy(chain.culprit_phy_tx_id)
                 THEN [s1 EXCEPT
                          !.heap[c].culprit_phy_tx_id = e.phy_tx_id,
                          !.chains_by_culprit_phy_tx_id =
                              DictPut(@, e.phy_tx_id,
                                      Append(DictGet(@, e.phy_tx_id, <<>>), c))]
                 ELSE s1

\* Mutant: a chain that already has the culprit of the break event is
\* listed under it once more.
culprit_phy_tx_step_relist(s, e, i) ==
    LET lock == e.break_lock_id[i]
        c == DictGet(s.chains_by_lock_id, lock, 0)
    IN  IF c = 0 THEN s
        ELSE LET s1 == AddDetail(s, c, e.raw_line)
                 chain == s1.heap[c]
             IN  IF Truthy(chain.victim_phy_tx_id)
                    /\ chain.victim_phy_tx_id = e.phy_tx_id
                 THEN s1
                 ELSE IF Truthy(chain.culprit_phy_tx_id)
                         /\ chain.culprit_phy_tx_id # e.phy_tx_id
                 THEN Warn(s1, "already has culprit PhyTxId")
                 ELSE [s1 EXCEPT
                          !.heap[c].culprit_phy_tx_id = e.phy_tx_id,
                          !.chains_by_culprit_phy_tx_id =
                              DictPut(@, e.phy_tx_id,
                                      Append(DictGet(@, e.phy_tx_id, <<>>), c))]

\* One iteration of the loop of _fill_culprit_phy_tx_id, for break_lock_id[i].
culprit_phy_tx_step(s, e, i) ==
    LET lock == e.break_lock_id[i]
        c == DictGet(s.chains_by_lock_id, lock, 0)
    IN  IF c = 0 THEN s
        ELSE LET s1 == AddDetail(s, c, e.raw_line)
                 chain == s1.heap[c]
             IN  IF Truthy(chain.victim_phy_tx_id)
                    /\ chain.victim_phy_tx_id = e.phy_tx_id
                 THEN s1
                 ELSE IF Truthy(chain.culprit_phy_tx_id)
                         /\ chain.culprit_phy_tx_id # e.phy_tx_id
                 THEN Warn(s1, "already has culprit PhyTxId")
                 ELSE IF ~Truthy(chain.culprit_phy_tx_id)
                 THEN [s1 EXCEPT
                          !.heap[c].culprit_phy_tx_id = e.phy_tx_id,
                          !.chains_by_culprit_phy_tx_id =
                              DictPut(@, e.phy_tx_id,
                                      Append(DictGet(@, e.phy_tx_id, <<>>), c))]
                 ELSE s1

\* Mutant: a skipped or conflicting chain ends the loop.
RECURSIVE culprit_phy_tx_loop_stop(_, _, _)
culprit_phy_tx_loop_stop(s, e, i) ==
    IF i > Len(e.break_lock_id) THEN s
    ELSE LET c == DictGet(s.chains_by_lock_id, e.break_lock_id[i], 0)
             s1 == culprit_phy_tx_step(s, e, i)
         IN  IF c # 0 /\ s1.heap[c].culprit_phy_tx_id # e.phy_tx_id
             THEN s1
             ELSE culprit_phy_tx_loop_stop(s1, e, i + 1)

RECURSIVE culprit_phy_tx_loop(_, _, _)
culprit_phy_tx_loop(s, e, i) ==
    IF i > Len(e.break_lock_id) THEN s
    ELSE culprit_phy_tx_loop(culprit_phy_tx_step(s, e, i), e, i + 1)

\* _fill_culprit_phy_tx_id
fill_culprit_phy_tx_id(s, e) ==
    IF e.break_lock_id = <<>> THEN s
    ELSE IF ~Truthy(e.phy_tx_id) THEN Warn(s, "expected PhyTxId in BreakLocks")
    ELSE culprit_phy_tx_loop(s, e, 1)

\* Mutant: the chain is not indexed under its new culprit trace id.
RECURSIVE culprit_trace_loop_noindex(_, _, _, _)
culprit_trace_loop_noindex(s, e, victim_chains, i) ==
    IF i > Len(victim_chains) THEN s
    ELSE LET c == victim_chains[i]
             s1 == AddDetail(s, c, e.raw_line)
             chain == s1.heap[c]
         IN  IF Truthy(chain.culprit_trace_id) /\ chain.culprit_trace_id # e.trace_id
             THEN Warn(s1, "already has culprit TraceId")
             ELSE IF ~Truthy(e.trace_id) \/ e.trace_id = "Empty"
             THEN Warn(s1, "expected valid TraceId")
             ELSE IF ~Truthy(chain.culprit_trace_id)
             THEN culprit_trace_loop_noindex(
                      [s1 EXCEPT !.heap[c].culprit_trace_id = e.trace_id],
                      e, victim_chains, i + 1)
             ELSE culprit_trace_loop_noindex(s1, e, victim_chains, i + 1)

\* The loop of _fill_culprit_trace_id over victim_chains from position i; a
\* return inside the loop ends it.
RECURSIVE culprit_trace_loop(_, _, _, _)
culprit_trace_loop(s, e, victim_chains, i) ==
    IF i > Len(victim_chains) THEN s
    ELSE LET c == victim_chains[i]
             s1 == AddDetail(s, c, e.raw_line)
             chain == s1.heap[c]
         IN  IF Truthy(chain.culprit_trace_id) /\ chain.culprit_trace_id # e.trace_id
             THEN Warn(s1, "already has culprit TraceId")
             ELSE IF ~Truthy(e.trace_id) \/ e.trace_id = "Empty"
             THEN Warn(s1, "expected valid TraceId")
             ELSE IF ~Truthy(chain.culprit_trace_id)
             THEN culprit_trace_loop(
                      [s1 EXCEPT
                          !.heap[c].culprit_trace_id = e.trace_id,
                          !.chains_by_culprit_trace_id =
                              DictPut(@, e.trace_id,
                                      Append(DictGet(@, e.trace_id, <<>>), c))],
                      e, victim_chains, i + 1)
             ELSE culprit_trace_loop(s1, e, victim_chains, i + 1)

\* _fill_culprit_trace_id
fill_culprit_trace_id(s, e) ==
    LET victim_chains == DictGet(s.chains_by_culprit_phy_tx_id, e.phy_tx_id, <<>>)
    IN  IF victim_chains = <<>>
        THEN Warn(s, "no chains for culprit PhyTxId")
        ELSE culprit_trace_loop(s, e, victim_chains, 1)

RECURSIVE culprit_session_loop(_, _, _, _)
culprit_session_loop(s, e, victim_chains, i) ==
    IF i > Len(victim_chains) THEN s
    ELSE LET c == victim_chains[i]
             s1 == AddDetail(s, c, e.raw_line)
             chain == s1.heap[c]
         IN  IF ~Truthy(e.session_id)
             THEN Warn(s1, "expected SessionId for culprit")
             ELSE IF Truthy(chain.culprit_session_id)
                     /\ chain.culprit_session_id # e.session_id
             THEN Warn(s1, "already has culprit_session_id")
             ELSE IF ~Truthy(chain.culprit_session_id)
             THEN culprit_session_loop(
                      [s1 EXCEPT !.heap[c].culprit_session_id = e.session_id],
                      e, victim_chains, i + 1)
             ELSE culprit_session_loop(s1, e, victim_chains, i + 1)

\* _fill_culprit_session_id
fill_culprit_session_id(s, e) ==
    LET victim_chains == DictGet(s.chains_by_culprit_trace_id, e.trace_id, <<>>)
    IN  IF victim_chains = <<>>
        THEN Warn(s, "no chain for culprit TraceId")
        ELSE culprit_session_loop(s, e, victim_chains, 1)

\* Mutant: a TxId equal to the culprit's PhyTxId is accepted.
RECURSIVE culprit_tx_loop_nophy(_, _, _, _)
culprit_tx_loop_nophy(s, e, victim_chains, i) ==
    IF i > Len(victim_chains) THEN s
    ELSE LET c == victim_chains[i]
             s1 == AddDetail(s, c, e.raw_line)
             chain == s1.heap[c]
         IN  IF ~Truthy(e.tx_id) \/ e.tx_id = "Empty"
             THEN Warn(s1, "expected valid TxId")
             ELSE IF chain.culprit_tx_id = e.tx_id
             THEN s1
             ELSE IF Truthy(chain.culprit_tx_id) /\ chain.culprit_tx_id # e.tx_id
             THEN s1
             ELSE culprit_tx_loop_nophy(
                      [s1 EXCEPT !.heap[c].culprit_tx_id = e.tx_id],
                      e, victim_chains, i + 1)

\* Mutant: a different later TxId replaces the one already set.
RECURSIVE culprit_tx_loop_overwrite(_, _, _, _)
culprit_tx_loop_overwrite(s, e, victim_chains, i) ==
    IF i > Len(victim_chains) THEN s
    ELSE LET c == victim_chains[i]
             s1 == AddDetail(s, c, e.raw_line)
             chain == s1.heap[c]
         IN  IF ~Truthy(e.tx_id) \/ e.tx_id = "Empty"
             THEN Warn(s1, "expected valid TxId")
             ELSE IF chain.culprit_tx_id = e.tx_id
             THEN s1
             ELSE IF e.tx_id = chain.culprit_phy_tx_id
             THEN s1
             ELSE culprit_tx_loop_overwrite(
                      [s1 EXCEPT !.heap[c].culprit_tx_id = e.tx_id],
                      e, victim_chains, i + 1)

RECURSIVE culprit_tx_loop(_, _, _, _)
culprit_tx_loop(s, e, victim_chains, i) ==
    IF i > Len(victim_chains) THEN s
    ELSE LET c == victim_chains[i]
             s1 == AddDetail(s, c, e.raw_line)
             chain == s1.heap[c]
         IN  IF ~Truthy(e.tx_id) \/ e.tx_id = "Empty"
             THEN Warn(s1, "expected valid TxId")
             ELSE IF chain.culprit_tx_id = e.tx_id
             THEN s1
             ELSE IF Truthy(chain.culprit_tx_id) /\ chain.culprit_tx_id # e.tx_id
             THEN s1
             ELSE IF e.tx_id = chain.culprit_phy_tx_id
             THEN s1
             ELSE IF ~Truthy(chain.culprit_tx_id)
             THEN culprit_tx_loop(
                      [s1 EXCEPT !.heap[c].culprit_tx_id = e.tx_id],
                      e, victim_chains, i + 1)
             ELSE culprit_tx_loop(s1, e, victim_chains, i + 1)

\* _fill_culprit_tx_id
fill_culprit_tx_id(s, e) ==
    LET victim_chains == DictGet(s.chains_by_culprit_trace_id, e.trace_id, <<>>)
    IN  IF victim_chains = <<>>
        THEN Warn(s, "no chain for culprit TraceId")
        ELSE culprit_tx_loop(s, e, victim_chains, 1)

----------------------------------------------------------------------------
\* Mutant: the first transaction recorded for a session stays.
collect_session_tx_first(s, e) ==
    IF Truthy(e.session_id) /\ Truthy(e.tx_id)
    THEN IF DictHas(s.session_current_tx, e.session_id) THEN s
         ELSE [s EXCEPT !.session_current_tx = DictPut(@, e.session_id, e.tx_id)]
    ELSE IF Truthy(e.session_id) /\ e.begin_tx
    THEN [s EXCEPT !.session_current_tx = DictPop(@, e.session_id)]
    ELSE s

\* Mutant: the begin-transaction flag clears the session's entry even when
\* the record names a tx id.
collect_session_tx_begin_clears(s, e) ==
    IF Truthy(e.session_id) /\ e.begin_tx
    THEN [s EXCEPT !.session_current_tx = DictPop(@, e.session_id)]
    ELSE IF Truthy(e.session_id) /\ Truthy(e.tx_id)
    THEN [s EXCEPT !.session_current_tx = DictPut(@, e.session_id, e.tx_id)]
    ELSE s

\* _collect_session_tx
collect_session_tx(s, e) ==
    IF Truthy(e.session_id) /\ Truthy(e.tx_id)
    THEN [s EXCEPT !.session_current_tx = DictPut(@, e.session_id, e.tx_id)]
    ELSE IF Truthy(e.session_id) /\ e.begin_tx
    THEN [s EXCEPT !.session_current_tx = DictPop(@, e.session_id)]
    ELSE s

\* Mutant: a query without tx id and session id is kept under no tx id.
collect_transaction_queries_anon(s, e, idx) ==
    IF ~Truthy(e.query_action) THEN s
    ELSE IF Truthy(e.tx_id) /\ e.tx_id # "Empty"
    THEN [s EXCEPT !.queries_by_tx =
                       DictPut(@, e.tx_id, Append(DictGet(@, e.tx_id, <<>>), idx))]
    ELSE LET inferred_tx == DictGet(s.session_current_tx, e.session_id, None)
         IN  [s EXCEPT !.queries_by_tx =
                       DictPut(@, inferred_tx,
                               Append(DictGet(@, inferred_tx, <<>>), idx))]

\* _collect_transaction_queries
collect_transaction_queries(s, e, idx) ==
    IF ~Truthy(e.query_action) THEN s
    ELSE IF Truthy(e.tx_id) /\ e.tx_id # "Empty"
    THEN [s EXCEPT !.queries_by_tx =
                       DictPut(@, e.tx_id, Append(DictGet(@, e.tx_id, <<>>), idx))]
    ELSE IF Truthy(e.session_id)
    THEN LET inferred_tx == DictGet(s.session_current_tx, e.session_id, None)
         IN  IF Truthy(inferred_tx)
             THEN [s EXCEPT !.queries_by_tx =
                       DictPut(@, inferred_tx,
                               Append(DictGet(@, inferred_tx, <<>>), idx))]
             ELSE Warn(s, "unable to infer TxId from SessionId")
    ELSE Warn(s, "query has no TxId and no SessionId")

\* Mutant: a record with query text does not replace a cached record that
\* has none.
cache_entry_by_trace_noquery(s, log, idx) ==
    LET e == log[idx]
        cached == DictGet(s.entries_by_trace, e.trace_id, NoEntry)
    IN  IF Truthy(e.trace_id) /\ e.trace_id # "Empty"
        THEN IF cached = NoEntry
             THEN [s EXCEPT !.entries_by_trace = DictPut(@, e.trace_id, idx)]
             ELSE IF Truthy(e.session_id) /\ ~Truthy(log[cached].session_id)
             THEN [s EXCEPT !.entries_by_trace = DictPut(@, e.trace_id, idx)]
             ELSE s
        ELSE s

\* The trace-representative cache step of _process_entry (lines 77-87); log
\* is the stream up to and including the entry at idx.
cache_entry_by_trace(s, log, idx) ==
    LET e == log[idx]
        cached == DictGet(s.entries_by_trace, e.trace_id, NoEntry)
    IN  IF Truthy(e.trace_id) /\ e.trace_id # "Empty"
        THEN IF cached = NoEntry
             THEN [s EXCEPT !.entries_by_trace = DictPut(@, e.trace_id, idx)]
             ELSE IF Truthy(e.session_id) /\ ~Truthy(log[cached].session_id)
             THEN [s EXCEPT !.entries_by_trace = DictPut(@, e.trace_id, idx)]
             ELSE IF Truthy(e.query_text) /\ ~Truthy(log[cached].query_text)
             THEN [s EXCEPT !.entries_by_trace = DictPut(@, e.trace_id, idx)]
             ELSE s
        ELSE s

\* Mutant: the placeholder 'Empty' is taken for a trace id like any other;
\* the first chain waiting on the physical transaction adopts it.
process_entry_placeholder(s, log, idx, details) ==
    LET e  == log[idx]
        s1 == IF Truthy(e.query_action) THEN collect_transaction_queries(s, e, idx) ELSE s
        s2 == collect_session_tx(s1, e)
        s3 == cache_entry_by_trace(s2, log, idx)
        s4 == IF is_transaction_locks_invalidated(e)
              THEN create_new_chain(s3, e, idx, details) ELSE s3
        s5 == IF /\ DictHas(s4.chains, e.trace_id)
                 /\ e.status = "LOCKS_BROKEN"
                 /\ Truthy(e.phy_tx_id)
              THEN fill_victim_phy_tx_id(s4, e) ELSE s4
        s6 == IF /\ DictHas(s5.chains, e.trace_id)
                 /\ e.status = "LOCKS_BROKEN"
                 /\ e.lock_id # <<>>
              THEN fill_lock_id(s5, e) ELSE s5
        s7 == IF e.break_lock_id # <<>> THEN fill_culprit_phy_tx_id(s6, e) ELSE s6
        waiting == DictGet(s7.chains_by_culprit_phy_tx_id, e.phy_tx_id, <<>>)
        s8 == IF /\ DictHas(s7.chains_by_culprit_phy_tx_id, e.phy_tx_id)
                 /\ Truthy(e.trace_id)
              THEN IF /\ e.trace_id = "Empty"
                      /\ waiting # <<>>
                      /\ ~Truthy(s7.heap[waiting[1]].culprit_trace_id)
                   THEN [s7 EXCEPT
                            !.heap[waiting[1]].culprit_trace_id = e.trace_id,
                            !.chains_by_culprit_trace_id =
                                DictPut(@, e.trace_id,
                                        Append(DictGet(@, e.trace_id, <<>>),
                                               waiting[1]))]
                   ELSE fill_culprit_trace_id(s7, e)
              ELSE s7
        s9 == IF /\ DictHas(s8.chains_by_culprit_trace_id, e.trace_id)
                 /\ Truthy(e.session_id)
              THEN fill_culprit_session_id(s8, e) ELSE s8
    IN  IF /\ DictHas(s9.chains_by_culprit_trace_id, e.trace_id)
           /\ Truthy(e.tx_id) /\ e.tx_id # "Empty"
        THEN fill_culprit_tx_id(s9, e) ELSE s9

\* Mutant: a new chain revisits the stream scanned so far and takes the lock
\* id of an earlier LOCKS_BROKEN record of its trace.
process_entry_revisit(s, log, idx, details) ==
    LET e  == log[idx]
        s1 == IF Truthy(e.query_action) THEN collect_transaction_queries(s, e, idx) ELSE s
        s2 == collect_session_tx(s1, e)
        s3 == cache_entry_by_trace(s2, log, idx)
        s4 == IF is_transaction_locks_invalidated(e)
              THEN create_new_chain(s3, e, idx, details) ELSE s3
        s5 == IF /\ DictHas(s4.chains, e.trace_id)
                 /\ e.status = "LOCKS_BROKEN"
                 /\ Truthy(e.phy_tx_id)
              THEN fill_victim_phy_tx_id(s4, e) ELSE s4
        s6 == IF /\ DictHas(s5.chains, e.trace_id)
                 /\ e.status = "LOCKS_BROKEN"
                 /\ e.lock_id # <<>>
              THEN fill_lock_id(s5, e) ELSE s5
        s7 == IF e.break_lock_id # <<>> THEN fill_culprit_phy_tx_id(s6, e) ELSE s6
        s8 == IF /\ DictHas(s7.chains_by_culprit_phy_tx_id, e.phy_tx_id)
                 /\ Truthy(e.trace_id) /\ e.trace_id # "Empty"
              THEN fill_culprit_trace_id(s7, e) ELSE s7
        s9 == IF /\ DictHas(s8.chains_by_culprit_trace_id, e.trace_id)
                 /\ Truthy(e.session_id)
              THEN fill_culprit_session_id(s8, e) ELSE s8
        s10 == IF /\ DictHas(s9.chains_by_culprit_trace_id, e.trace_id)
                  /\ Truthy(e.tx_id) /\ e.tx_id # "Empty"
               THEN fill_culprit_tx_id(s9, e) ELSE s9
        earlier == {i \in 1..(idx - 1) : /\ log[i].status = "LOCKS_BROKEN"
                                         /\ log[i].trace_id = e.trace_id
                                         /\ log[i].lock_id # <<>>}
    IN  IF /\ is_transaction_locks_invalidated(e)
           /\ DictHas(s10.chains, e.trace_id)
           /\ earlier # {}
        THEN fill_lock_id(s10, log[CHOOSE i \in earlier : \A j \in earlier : i <= j])
        ELSE s10

\* Mutant: the active transaction of the session is tracked before the
\* query is accumulated.
process_entry_session_first(s, log, idx, details) ==
    LET e  == log[idx]
        s1 == collect_session_tx(s, e)
        s2 == IF Truthy(e.query_action) THEN collect_transaction_queries(s1, e, idx) ELSE s1
        s3 == cache_entry_by_trace(s2, log, idx)
        s4 == IF is_transaction_locks_invalidated(e)
              THEN create_new_chain(s3, e, idx, details) ELSE s3
        s5 == IF /\ DictHas(s4.chains, e.trace_id)
                 /\ e.status = "LOCKS_BROKEN"
                 /\ Truthy(e.phy_tx_id)
              THEN fill_victim_phy_tx_id(s4, e) ELSE s4
        s6 == IF /\ DictHas(s5.chains, e.trace_id)
                 /\ e.status = "LOCKS_BROKEN"
                 /\ e.lock_id # <<>>
              THEN fill_lock_id(s5, e) ELSE s5
        s7 == IF e.break_lock_id # <<>> THEN fill_culprit_phy_tx_id(s6, e) ELSE s6
        s8 == IF /\ DictHas(s7.chains_by_culprit_phy_tx_id, e.phy_tx_id)
                 /\ Truthy(e.trace_id) /\ e.trace_id # "Empty"
              THEN fill_culprit_trace_id(s7, e) ELSE s7
        s9 == IF /\ DictHas(s8.chains_by_culprit_trace_id, e.trace_id)
                 /\ Truthy(e.session_id)
              THEN fill_culprit_session_id(s8, e) ELSE s8
    IN  IF /\ DictHas(s9.chains_by_culprit_trace_id, e.trace_id)
           /\ Truthy(e.tx_id) /\ e.tx_id # "Empty"
        THEN fill_culprit_tx_id(s9, e) ELSE s9

\* _process_entry, its steps in the order of the code.
process_entry(s, log, idx, details) ==
    LET e  == log[idx]
        s1 == IF Truthy(e.query_action) THEN collect_transaction_queries(s, e, idx) ELSE s
        s2 == collect_session_tx(s1, e)
        s3 == cache_entry_by_trace(s2, log, idx)
        s4 == IF is_transaction_locks_invalidated(e)
              THEN create_new_chain(s3, e, idx, details) ELSE s3
        s5 == IF /\ DictHas(s4.chains, e.trace_id)
                 /\ e.status = "LOCKS_BROKEN"
                 /\ Truthy(e.phy_tx_id)
              THEN fill_victim_phy_tx_id(s4, e) ELSE s4
        s6 == IF /\ DictHas(s5.chains, e.trace_id)
                 /\ e.status = "LOCKS_BROKEN"
                 /\ e.lock_id # <<>>
              THEN fill_lock_id(s5, e) ELSE s5
        s7 == IF e.break_lock_id # <<>> THEN fill_culprit_phy_tx_id(s6, e) ELSE s6
        s8 == IF /\ DictHas(s7.chains_by_culprit_phy_tx_id, e.phy_tx_id)
                 /\ Truthy(e.trace_id) /\ e.trace_id # "Empty"
              THEN fill_culprit_trace_id(s7, e) ELSE s7
        s9 == IF /\ DictHas(s8.chains_by_culprit_trace_id, e.trace_id)
                 /\ Truthy(e.session_id)
              THEN fill_culprit_session_id(s8, e) ELSE s8
    IN  IF /\ DictHas(s9.chains_by_culprit_trace_id, e.trace_id)
           /\ Truthy(e.tx_id) /\ e.tx_id # "Empty"
        THEN fill_culprit_tx_id(s9, e) ELSE s9

----------------------------------------------------------------------------
\* Mutant: an entry is placed before the entries of its own timestamp.
RECURSIVE sorted_unstable(_, _)
sorted_unstable(queries, log) ==
    IF queries = <<>> THEN <<>>
    ELSE LET n == Len(queries)
             x == queries[n]
             front == sorted_unstable(SubSeq(queries, 1, n - 1), log)
             keep == {i \in 1..Len(front) :
                         log[front[i]].timestamp < log[x].timestamp}
             at == IF keep = {} THEN 0 ELSE CHOOSE i \in keep : \A j \in keep : j <= i
         IN  SubSeq(front, 1, at) \o <<x>> \o SubSeq(front, at + 1, Len(front))

\* sorted(queries, key=lambda x: x.timestamp or ''): a stable sort; the
\* entries are positions in log.
RECURSIVE sorted_by_timestamp(_, _)
sorted_by_timestamp(queries, log) ==
    IF queries = <<>> THEN <<>>
    ELSE LET n == Len(queries)
             x == queries[n]
             front == sorted_by_timestamp(SubSeq(queries, 1, n - 1), log)
             keep == {i \in 1..Len(front) :
                         log[front[i]].timestamp <= log[x].timestamp}
             at == IF keep = {} THEN 0 ELSE CHOOSE i \in keep : \A j \in keep : j <= i
         IN  SubSeq(front, 1, at) \o <<x>> \o SubSeq(front, at + 1, Len(front))

\* _get_sorted_queries
get_sorted_queries(s, log, tx_id) ==
    sorted_by_timestamp(DictGet(s.queries_by_tx, tx_id, <<>>), log)

\* _populate_queries, for the chains of self.chains from position i.
RECURSIVE populate_queries(_, _, _)
populate_queries(s, log, i) ==
    IF i > Len(s.chains) THEN s
    ELSE LET c == s.chains[i].v
             chain == s.heap[c]
             vq == IF Truthy(chain.victim_tx_id)
                   THEN get_sorted_queries(s, log, chain.victim_tx_id)
                   ELSE chain.victim_queries
             cq == IF Truthy(chain.culprit_tx_id)
                   THEN get_sorted_queries(s, log, chain.culprit_tx_id)
                   ELSE chain.culprit_queries
         IN  populate_queries(
                 [s EXCEPT !.heap[c].victim_queries = vq,
                           !.heap[c].culprit_queries = cq], log, i + 1)

\* Mutant: the representative record is looked up under the victim's trace.
RECURSIVE complete_remaining_chains_victim(_, _)
complete_remaining_chains_victim(s, i) ==
    IF i > Len(s.chains) THEN s
    ELSE LET c == s.chains[i].v
             chain == s.heap[c]
             culprit_entry == DictGet(s.entries_by_trace, chain.victim_trace_id, NoEntry)
         IN  complete_remaining_chains_victim(
                 IF chain.culprit_entry = NoEntry /\ culprit_entry # NoEntry
                 THEN [s EXCEPT !.heap[c].culprit_entry = culprit_entry]
                 ELSE s, i + 1)

\* _complete_remaining_chains
RECURSIVE complete_remaining_chains(_, _)
complete_remaining_chains(s, i) ==
    IF i > Len(s.chains) THEN s
    ELSE LET c == s.chains[i].v
             chain == s.heap[c]
             culprit_entry == DictGet(s.entries_by_trace, chain.culprit_trace_id, NoEntry)
         IN  complete_remaining_chains(
                 IF chain.culprit_entry = NoEntry /\ culprit_entry # NoEntry
                 THEN [s EXCEPT !.heap[c].culprit_entry = culprit_entry]
                 ELSE s, i + 1)

\* The required fields _validate_chains finds missing in a chain.
missing_fields(chain) ==
    LET m(cond, name) == IF cond THEN <<name>> ELSE <<>>
    IN  m(~Truthy(chain.victim_session_id), "victim_session_id")
        \o m(~Truthy(chain.victim_trace_id), "victim_trace_id")
        \o m(~Truthy(chain.lock_id), "lock_id")
        \o m(~Truthy(chain.culprit_phy_tx_id), "culprit_phy_tx_id")
        \o m(~Truthy(chain.culprit_trace_id), "culprit_trace_id")
        \o m(~Truthy(chain.culprit_session_id), "culprit_session_id")
        \o m(chain.victim_entry = NoEntry, "victim_entry")
        \o m(chain.culprit_entry = NoEntry, "culprit_entry")
        \o m(~Truthy(chain.table_name), "table_name")
        \o m(~Truthy(chain.victim_tx_id), "victim_tx_id")
        \o m(~Truthy(chain.culprit_tx_id), "culprit_tx_id")
        \o m(chain.victim_queries = <<>>, "victim_queries")
        \o m(chain.culprit_queries = <<>>, "culprit_queries")

\* Mutant: the audit logs nothing.
RECURSIVE validate_chains_silent(_, _)
validate_chains_silent(s, i) ==
    IF i > Len(s.chains) THEN s
    ELSE validate_chains_silent(s, i + 1)

\* _validate_chains: one warning per incomplete chain.
RECURSIVE validate_chains(_, _)
validate_chains(s, i) ==
    IF i > Len(s.chains) THEN s
    ELSE LET missing == missing_fields(s.heap[s.chains[i].v])
         IN  validate_chains(
                 IF missing # <<>>
                 THEN [s EXCEPT !.warnings =
                          Append(@, [msg |-> "Incomplete chain", missing |-> missing])]
                 ELSE s, i + 1)

----------------------------------------------------------------------------
\* The record streams explored: each pool is a family of records from which
\* the stream draws, in any order and with repetition, up to MaxLen records.

\* Chain creation: invalidation records with and without trace and session
\* id, two records for the same trace, near misses of the invalidation test.
PoolCreate ==
    { Inval("a1", "T1", "S1", "X1", IssuesTable("/db/t1")),
      Inval("a2", "T1", "S2", "Unknown", IssuesNoTable),
      Inval("a3", None, "S1", "X1", IssuesTable("/db/t1")),
      Inval("a4", "T2", None, "X2", IssuesTable("/db/t2")),
      Inval("a5", "T2", "S2", "X2", IssuesTable("/db/t2")),
      [LocksBroken("a6", "T1", <<"11">>, "101") EXCEPT !.issues = IssuesNoTable],
      [Ids("a7", None, "T2", "S1", None) EXCEPT !.status = "ABORTED",
                                                !.issues = IssuesOther],
      [BreakEvent("a8", <<"11">>, "102") EXCEPT !.trace_id = "T3"] }

\* Victim side: LOCKS_BROKEN records with one, several or no lock ids and
\* with differing physical-transaction ids; break events of the victim's own
\* and of other physical transactions.
PoolVictim ==
    { Inval("b1", "T1", "S1", "X1", IssuesTable("/db/t1")),
      LocksBroken("b2", "T1", <<"11">>, "101"),
      LocksBroken("b3", "T1", <<"12", "11">>, None),
      LocksBroken("b4", "T1", <<"12">>, "102"),
      LocksBroken("b8", "T1", <<>>, "101"),
      BreakEvent("b5", <<"11">>, "101"),
      BreakEvent("b6", <<"11", "12">>, "102"),
      BreakEvent("b7", <<"12">>, "103") }

\* Culprit side: records of the breaking physical transaction with
\* agreeing and conflicting trace, session and tx ids, one of them with the
\* physical-transaction id in its TxId field.
PoolCulprit ==
    { Inval("c1", "T1", "S1", "X1", IssuesTable("/db/t1")),
      LocksBroken("c2", "T1", <<"11">>, "101"),
      BreakEvent("c3", <<"11">>, "102"),
      [BreakEvent("c4", <<"11">>, "102") EXCEPT !.trace_id = "T3",
                                                !.session_id = "S2", !.tx_id = "X2"],
      Ids("c5", "102", "T3", "S2", "X2"),
      Ids("c6", "102", "T3", "S2", "102"),
      Ids("c7", "102", "T4", "S3", "X3"),
      Ids("c8", None, "T3", "S3", "X3") }

\* Queries: query records with a tx id, with a session id only, with
\* neither, with the begin-transaction flag and with the placeholder tx id.
PoolQueries ==
    { [Inval("q1", "T1", "S1", "X1", IssuesTable("/db/t1")) EXCEPT !.timestamp = 9],
      Query("q2", 5, None, "T1", "X1", FALSE),
      Query("q3", 3, None, None, "X1", FALSE),
      Query("q4", 5, "S1", None, None, FALSE),
      Query("q5", 1, "S1", None, None, TRUE),
      Query("q6", 4, None, None, None, FALSE),
      Query("q8", 2, "S1", None, "Empty", FALSE),
      [Ids("q7", None, "T1", "S1", "X1") EXCEPT !.timestamp = 7] }

\* Queries of the culprit: a break event that is itself a query record of
\* the culprit's trace, session and transaction, and later-scanned queries
\* of that transaction, named by tx id or by session only, with and without
\* the begin-transaction flag.
PoolCulpritQueries ==
    { [Inval("k1", "T1", "S1", "X1", IssuesTable("/db/t1")) EXCEPT !.timestamp = 9],
      [LocksBroken("k2", "T1", <<"11">>, "101") EXCEPT !.timestamp = 8],
      [BreakEvent("k3", <<"11">>, "102") EXCEPT
           !.timestamp = 5, !.trace_id = "T3", !.session_id = "S2", !.tx_id = "X2",
           !.query_action = "QUERY_ACTION_EXECUTE", !.query_text = "UPSERT"],
      Query("k4", 3, None, None, "X2", FALSE),
      Query("k5", 5, "S2", None, None, FALSE),
      Query("k6", 4, "S2", None, None, TRUE),
      Query("k7", 2, "S2", None, "X2", TRUE) }

\* The inputs: a pool and the collect_details argument.
Inputs ==
    { <<PoolCreate, FALSE>>, <<PoolVictim, FALSE>>, <<PoolCulprit, FALSE>>,
      <<PoolCulprit, TRUE>>, <<PoolQueries, FALSE>>, <<PoolCulpritQueries, FALSE>> }

----------------------------------------------------------------------------
\* ChainTracerSinglePass.__init__, before find_all_invalidation_chains runs.
Init ==
    /\ \E inp \in Inputs : pool = inp[1] /\ collect_details = inp[2]
    /\ scanned = <<>>
    /\ heap = <<>>
    /\ chains = <<>>
    /\ queries_by_tx = <<>>
    /\ session_current_tx = <<>>
    /\ chains_by_lock_id = <<>>
    /\ chains_by_culprit_phy_tx_id = <<>>
    /\ chains_by_culprit_trace_id = <<>>
    /\ entries_by_trace = <<>>
    /\ warnings = <<>>
    /\ returned = <<>>
    /\ pc = "scan"
    /\ format = "systemd"
    /\ line = <<>>
    /\ written = <<>>
    /\ parsed = Pending
    /\ StreamIdle

\* The instance fields after the run of an operator.
Store(s) ==
    /\ heap' = s.heap
    /\ chains' = s.chains
    /\ queries_by_tx' = s.queries_by_tx
    /\ session_current_tx' = s.session_current_tx
    /\ chains_by_lock_id' = s.chains_by_lock_id
    /\ chains_by_culprit_phy_tx_id' = s.chains_by_culprit_phy_tx_id
    /\ chains_by_culprit_trace_id' = s.chains_by_culprit_trace_id
    /\ entries_by_trace' = s.entries_by_trace
    /\ warnings' = s.warnings

\* One iteration of the loop of find_all_invalidation_chains: the stream
\* delivers an entry and _process_entry runs on it.
ScanEntry ==
    /\ pc = "scan"
    /\ Len(scanned) < MaxLen
    /\ \E e \in pool :
          LET log == Append(scanned, e)
          IN  /\ scanned' = log
              /\ Store(process_entry(Self, log, Len(log), collect_details))
    /\ UNCHANGED <<pool, collect_details, returned, pc>>
    /\ UNCHANGED parser_vars
    /\ UNCHANGED stream_vars

\* The stream is exhausted: _populate_queries, _complete_remaining_chains,
\* _validate_chains, and the return of the chains.
Finalize ==
    /\ pc = "scan"
    /\ LET s1 == populate_queries(Self, scanned, 1)
           s2 == complete_remaining_chains(s1, 1)
           s3 == validate_chains(s2, 1)
       IN  /\ Store(s3)
           /\ returned' = DictValues(s3.chains)
    /\ pc' = "done"
    /\ UNCHANGED <<pool, collect_details, scanned>>
    /\ UNCHANGED parser_vars
    /\ UNCHANGED stream_vars

Next == ScanEntry \/ Finalize

Spec == Init /\ [][Next]_vars

----------------------------------------------------------------------------
\* Longer streams: the scenarios with two victims need six records, so their
\* streams deliver each record of the pool at most once.

\* Most entries scanned of such a stream.
MaxScan == 6

\* Two victims whose locks are broken by the same physical transaction 201:
\* break events of 201 that carry the culprit's trace, session and tx id,
\* agreeing on the trace and the tx id and differing in the session (s6),
\* or naming another trace (s7).
PoolShared ==
    { Inval("s1", "T1", "S1", "X1", IssuesTable("/db/t1")),
      LocksBroken("s2", "T1", <<"11">>, "101"),
      Inval("s3", "T2", "S2", "X2", IssuesTable("/db/t2")),
      LocksBroken("s4", "T2", <<"12">>, "102"),
      [BreakEvent("s5", <<"11">>, "201") EXCEPT !.trace_id = "T3",
                                                !.session_id = "S3", !.tx_id = "X3"],
      [BreakEvent("s6", <<"12">>, "201") EXCEPT !.trace_id = "T3",
                                                !.session_id = "S4", !.tx_id = "X3"],
      [BreakEvent("s7", <<"12">>, "201") EXCEPT !.trace_id = "T4"] }

\* Two victims and break events that list the locks of both: of a third
\* physical transaction, of the first victim's own, and of a fourth one.
PoolServes ==
    { Inval("v1", "T1", "S1", "X1", IssuesTable("/db/t1")),
      LocksBroken("v2", "T1", <<"11">>, "101"),
      Inval("v3", "T2", "S2", "X2", IssuesTable("/db/t2")),
      LocksBroken("v4", "T2", <<"12">>, "102"),
      BreakEvent("v5", <<"11", "12">>, "201"),
      BreakEvent("v6", <<"11", "13", "12">>, "101"),
      BreakEvent("v7", <<"11", "12">>, "202") }

\* The placeholder 'Empty' in the trace and tx id of the culprit's records,
\* and records of the culprit's trace with and without session id and query
\* text.
PoolPlaceholder ==
    { Inval("p1", "T1", "S1", "X1", IssuesTable("/db/t1")),
      LocksBroken("p2", "T1", <<"11">>, "101"),
      BreakEvent("p3", <<"11">>, "201"),
      Ids("p4", "201", "Empty", "S3", "X3"),
      Ids("p5", "201", "T3", None, "Empty"),
      Query("p6", 3, None, "T3", "X3", FALSE),
      Ids("p7", "201", "T3", "S3", "X3") }

\* A LOCKS_BROKEN record of the victim that lists its own lock among the
\* broken locks, a break event that carries the culprit's trace, session and
\* tx id, a second victim whose LOCKS_BROKEN record names the same lock id,
\* a LOCKS_BROKEN record of the first victim with another physical
\* transaction, and a break event of another culprit.
PoolOrder ==
    { Inval("o1", "T1", "S1", "X1", IssuesTable("/db/t1")),
      [LocksBroken("o2", "T1", <<"11">>, "101") EXCEPT !.break_lock_id = <<"11">>],
      [BreakEvent("o3", <<"11">>, "201") EXCEPT !.trace_id = "T3",
                                                !.session_id = "S3", !.tx_id = "X3"],
      Inval("o4", "T2", "S2", "X2", IssuesTable("/db/t2")),
      LocksBroken("o5", "T2", <<"11">>, "102"),
      LocksBroken("o6", "T1", <<"11">>, "104"),
      BreakEvent("o7", <<"11">>, "202") }

LongInputs == {PoolShared, PoolServes, PoolPlaceholder, PoolOrder}

\* ChainTracerSinglePass.__init__ on such a stream.
LongInit ==
    /\ pool \in LongInputs
    /\ collect_details = FALSE
    /\ scanned = <<>>
    /\ heap = <<>>
    /\ chains = <<>>
    /\ queries_by_tx = <<>>
    /\ session_current_tx = <<>>
    /\ chains_by_lock_id = <<>>
    /\ chains_by_culprit_phy_tx_id = <<>>
    /\ chains_by_culprit_trace_id = <<>>
    /\ entries_by_trace = <<>>
    /\ warnings = <<>>
    /\ returned = <<>>
    /\ pc = "scan"
    /\ format = "systemd"
    /\ line = <<>>
    /\ written = <<>>
    /\ parsed = Pending
    /\ StreamIdle

\* One iteration of the loop of find_all_invalidation_chains on a record
\* the stream has not delivered before.
ScanNew ==
    /\ pc = "scan"
    /\ Len(scanned) < MaxScan
    /\ \E e \in pool \ SeqRange(scanned) :
          LET log == Append(scanned, e)
          IN  /\ scanned' = log
              /\ Store(process_entry(Self, log, Len(log), collect_details))
    /\ UNCHANGED <<pool, collect_details, returned, pc>>
    /\ UNCHANGED parser_vars
    /\ UNCHANGED stream_vars

LongNext == ScanNew \/ Finalize

LongSpec == LongInit /\ [][LongNext]_vars

----------------------------------------------------------------------------

\* LogParser (src/log_parser.py).
\*
\* A Python string is a sequence of tokens: a token is a run of word
\* characters (\w+), a timestamp, or one character of punctuation or white
\* space.  The labels of the patterns are tokens of their own ("PhyTxId" is
\* the two tokens "Phy" and "TxId", so that the pattern "TxId:" finds its
\* text inside "PhyTxId:" as it does in the string), and a regex is computed
\* as the cursor moves it makes over the tokens.  None is Unset for a string
\* and UnsetList for a list of strings.

SP == " "
NL == "<newline>"
QT == "<quote>"
BS == "<backslash>"

Unset == <<None>>
UnsetList == <<Unset>>

\* The digit runs and the timestamp of the lines explored.
DigitTokens == {"10", "11", "12", "22", "51", "54", "123", "889"}
TS == "2025-10-22T07:54:51.433950Z"
TS2 == "2025-10-22T07:54:52.000000Z"
Timestamps == {TS, TS2}

Punctuation == {":", ",", "[", "]", "{", "}", QT, BS}

\* \s, \w+, \d+ and the negated classes of the patterns.
IsSpace(t) == t \in {SP, NL}
IsWord(t) == t \notin Punctuation \cup {SP, NL} \cup Timestamps
IsDigits(t) == t \in DigitTokens
NotSpace(t) == ~IsSpace(t)
NotCommaSpace(t) == t # "," /\ ~IsSpace(t)
NotOpenBracket(t) == t # "["
NotCloseBracket(t) == t # "]"
NotCloseBrace(t) == t # "}"
NotNewline(t) == t # NL

\* The character class named C holds of token t.
Matches(C, t) ==
    CASE C = "IsSpace" -> IsSpace(t)
      [] C = "IsWord" -> IsWord(t)
      [] C = "IsDigits" -> IsDigits(t)
      [] C = "NotSpace" -> NotSpace(t)
      [] C = "NotCommaSpace" -> NotCommaSpace(t)
      [] C = "NotOpenBracket" -> NotOpenBracket(t)
      [] C = "NotCloseBracket" -> NotCloseBracket(t)
      [] C = "NotCloseBrace" -> NotCloseBrace(t)
      [] C = "NotNewline" -> NotNewline(t)

\* The least element of a non-empty set of positions.
Least(S) == CHOOSE i \in S : \A j \in S : i <= j

\* A cursor is a position of s, Len(s) + 1 at its end, 0 when the match has
\* failed.  Lit moves over the literal lit; Many over C*, greedily; Many1
\* over C+.
Lit(s, i, lit) ==
    IF i # 0 /\ i + Len(lit) - 1 <= Len(s) /\ SubSeq(s, i, i + Len(lit) - 1) = lit
    THEN i + Len(lit) ELSE 0

Many(s, i, C) ==
    IF i = 0 THEN 0
    ELSE LET stops == {j \in i..Len(s) : ~Matches(C, s[j])}
         IN  IF stops = {} THEN Len(s) + 1 ELSE Least(stops)

Many1(s, i, C) ==
    LET j == Many(s, i, C) IN IF j > i THEN j ELSE 0

\* str.strip()
strip(s) ==
    LET keep == {i \in 1..Len(s) : ~IsSpace(s[i])}
    IN  IF keep = {} THEN <<>>
        ELSE SubSeq(s, Least(keep), CHOOSE i \in keep : \A j \in keep : j <= i)

\* str.split(): the runs of s between white space.
RECURSIVE split(_)
split(s) ==
    LET from == Many(s, 1, "IsSpace")
        to == Many(s, from, "NotSpace")
    IN  IF from > Len(s) THEN <<>>
        ELSE <<SubSeq(s, from, to - 1)>> \o split(SubSeq(s, to, Len(s)))

\* str.replace(old, new) for a two-token old and a one-token new.
RECURSIVE replace(_, _, _)
replace(s, old, new) ==
    IF Len(s) < 2 THEN s
    ELSE IF SubSeq(s, 1, 2) = old
    THEN <<new>> \o replace(SubSeq(s, 3, Len(s)), old, new)
    ELSE <<s[1]>> \o replace(SubSeq(s, 2, Len(s)), old, new)

\* One step of a pattern from cursor i: a literal, or a greedy run of a
\* character class.
Step(s, i, step) ==
    CASE step.op = "Lit" -> Lit(s, i, step.arg)
      [] step.op = "Many" -> Many(s, i, step.arg)
      [] step.op = "Many1" -> Many1(s, i, step.arg)

\* The cursor after each of the steps in turn, from cursor i.
RECURSIVE Cursors(_, _, _)
Cursors(s, i, steps) ==
    IF steps = <<>> THEN <<>>
    ELSE <<Step(s, i, steps[1])>> \o Cursors(s, Step(s, i, steps[1]), Tail(steps))

\* r'\w+\s+\d+\s+\d+:\d+:\d+\s+([^\s]+)\s+': the cursor after step 10 is the
\* start of the node, after step 11 its end.
PrefixSteps ==
    << [op |-> "Many1", arg |-> "IsWord"], [op |-> "Many1", arg |-> "IsSpace"],
       [op |-> "Many1", arg |-> "IsDigits"], [op |-> "Many1", arg |-> "IsSpace"],
       [op |-> "Many1", arg |-> "IsDigits"], [op |-> "Lit", arg |-> <<":">>],
       [op |-> "Many1", arg |-> "IsDigits"], [op |-> "Lit", arg |-> <<":">>],
       [op |-> "Many1", arg |-> "IsDigits"], [op |-> "Many1", arg |-> "IsSpace"],
       [op |-> "Many1", arg |-> "NotSpace"], [op |-> "Many1", arg |-> "IsSpace"] >>

\* r'([^[]+)\[(\d+)\]:\s*': the process, the pid and the white space
\* before the content.
ProcessSteps ==
    << [op |-> "Many1", arg |-> "NotOpenBracket"], [op |-> "Lit", arg |-> <<"[">>],
       [op |-> "Many1", arg |-> "IsDigits"], [op |-> "Lit", arg |-> <<"]", ":">>],
       [op |-> "Many", arg |-> "IsSpace"] >>

\* The groups of the prefix: node from node to p8, process from process to
\* the bracket tail[1], pid from tail[2] to tail[3], content after ']:'
\* (tail[4]) and its white space (tail[5]) to the end of the line.
match_groups(l, node, p8, process, tail, content) ==
    IF content = 0 THEN [ok |-> FALSE]
    ELSE [ok |-> TRUE,
          node |-> SubSeq(l, node, p8 - 1),
          process |-> SubSeq(l, process, tail[1] - 1),
          pid |-> SubSeq(l, tail[2], tail[3] - 1),
          content |-> SubSeq(l, content, Many(l, content, "NotNewline") - 1)]

\* The start of the content: behind the white space after ']:' or, where
\* nothing follows that white space, at its last blank.
match_content(l, node, p8, process, tail) ==
    match_groups(l, node, p8, process, tail,
        IF tail[4] = 0 THEN 0
        ELSE IF tail[5] <= Len(l) THEN tail[5]
        ELSE IF {j \in tail[4]..Len(l) : l[j] = SP} = {} THEN 0
        ELSE CHOOSE j \in tail[4]..Len(l) :
                 l[j] = SP /\ \A k \in tail[4]..Len(l) : l[k] = SP => k <= j)

\* The start of the process: behind the white space after the node or,
\* where the bracket follows at once, at the last character of that white
\* space.
match_tail(l, node, p8, process) ==
    match_content(l, node, p8, process, Cursors(l, process, ProcessSteps))

match_process(l, head) ==
    match_tail(l, head[10], head[11],
        IF head[12] = 0 \/ head[12] > Len(l) THEN 0
        ELSE IF l[head[12]] # "[" THEN head[12]
        ELSE IF head[12] - head[11] >= 2 THEN head[12] - 1 ELSE 0)

\* re.match(r'\w+\s+\d+\s+\d+:\d+:\d+\s+([^\s]+)\s+([^[]+)\[(\d+)\]:\s*(.+)', line):
\* the systemd prefix with its groups node, process, pid and content.  Where
\* the white space before the process is followed at once by the bracket,
\* and where only white space follows the colon, the regex backtracks and
\* gives the last white-space character to the group behind it.
basic_match(l) == match_process(l, Cursors(l, 1, PrefixSteps))

\* Mutant: the marker needs no leading colon.
level_match_nocolon(c) ==
    LET word2(i) == Many1(c, Many1(c, i, "IsWord"), "IsSpace")
        close(i) == Many1(c, word2(i), "IsWord")
        starts == {i \in 1..Len(c) : Lit(c, close(i), <<":">>) # 0}
    IN  IF starts = {} THEN [ok |-> FALSE]
        ELSE LET i == Least(starts)
             IN  [ok |-> TRUE,
                  message_type |-> SubSeq(c, i, Many1(c, i, "IsWord") - 1),
                  log_level |-> SubSeq(c, word2(i), close(i) - 1)]

\* re.search(r':(\w+)\s+(\w+):', content): the leftmost marker.
level_match(c) ==
    LET word1(i) == Many1(c, Lit(c, i, <<":">>), "IsWord")
        word2(i) == Many1(c, word1(i), "IsSpace")
        close(i) == Many1(c, word2(i), "IsWord")
        starts == {i \in 1..Len(c) : Lit(c, close(i), <<":">>) # 0}
    IN  IF starts = {} THEN [ok |-> FALSE]
        ELSE LET i == Least(starts)
             IN  [ok |-> TRUE,
                  message_type |-> SubSeq(c, i + 1, word1(i) - 1),
                  log_level |-> SubSeq(c, word2(i), close(i) - 1)]

\* The labels of self.patterns whose value is [^,\s]+ or \d+.
Labels ==
    [session_id |-> <<"SessionId", ":">>, trace_id |-> <<"TraceId", ":">>,
     phy_tx_id |-> <<"Phy", "TxId", ":">>, lock_id |-> <<"LockId", ":">>,
     status |-> <<"Status", ":">>, key |-> <<"Key", ":">>,
     component |-> <<"Component", ":">>, tx_id |-> <<"TxId", ":">>,
     query_action |-> <<"QueryAction", ":">>, query_type |-> <<"QueryType", ":">>]

\* The cursor after label and \s* at position i, when a token of class C
\* follows there; 0 otherwise.
value_at(c, i, label, C) ==
    LET b == Many(c, Lit(c, i, label), "IsSpace")
    IN  IF b # 0 /\ b <= Len(c) /\ Matches(C, c[b]) THEN b ELSE 0

\* pattern.search(content) of r'Label:\s*(C+)': group 1 of the leftmost
\* match, Unset without a match.
search_label(c, label, C) ==
    LET starts == {i \in 1..Len(c) : value_at(c, i, label, C) # 0}
    IN  IF starts = {} THEN Unset
        ELSE LET b == value_at(c, Least(starts), label, C)
             IN  SubSeq(c, b, Many(c, b, C) - 1)

\* pattern.search in place of pattern.findall: the first occurrence only.
findall_lock_id_first(c, i) ==
    LET starts == {j \in i..Len(c) : value_at(c, j, Labels.lock_id, "IsDigits") # 0}
    IN  IF starts = {} THEN <<>>
        ELSE LET b == value_at(c, Least(starts), Labels.lock_id, "IsDigits")
             IN  <<SubSeq(c, b, Many(c, b, "IsDigits") - 1)>>

\* pattern.findall(content) of r'LockId:\s*(\d+)', from position i on.
RECURSIVE findall_lock_id(_, _)
findall_lock_id(c, i) ==
    IF i > Len(c) THEN <<>>
    ELSE LET b == value_at(c, i, Labels.lock_id, "IsDigits")
         IN  IF b = 0 THEN findall_lock_id(c, i + 1)
             ELSE LET e == Many(c, b, "IsDigits")
                  IN  <<SubSeq(c, b, e - 1)>> \o findall_lock_id(c, e)

\* r'(\d{4}-\d{2}-\d{2}T\d{2}:\d{2}:\d{2}\.\d+Z)': the leftmost timestamp.
search_timestamp(c) ==
    LET starts == {i \in 1..Len(c) : c[i] \in Timestamps}
    IN  IF starts = {} THEN Unset ELSE <<c[Least(starts)]>>

\* r'QueryText: "(.*?)(?<![\\])"': from the opening quote to the first quote
\* on the same line that no backslash precedes.
search_query_text(c) ==
    LET open(i) == Lit(c, i, <<"QueryText", ":", SP, QT>>)
        closes(a) == {x \in a..Len(c) :
                         /\ c[x] = QT
                         /\ c[x - 1] # BS
                         /\ \A y \in a..(x - 1) : c[y] # NL}
        starts == {i \in 1..Len(c) : open(i) # 0 /\ closes(open(i)) # {}}
    IN  IF starts = {} THEN Unset
        ELSE LET a == open(Least(starts))
             IN  SubSeq(c, a, Least(closes(a)) - 1)

\* r'Issues:\s*\{([^}]+)\}' and r'BreakLocks:\s*\[([^\]]+)\]': label, white
\* space, the opening character, a non-empty run without the closing
\* character, and the closing character.
search_enclosed(c, label, left, right, C) ==
    LET open(i) == Lit(c, Many(c, Lit(c, i, label), "IsSpace"), <<left>>)
        starts == {i \in 1..Len(c) : Lit(c, Many1(c, open(i), C), <<right>>) # 0}
    IN  IF starts = {} THEN Unset
        ELSE LET a == open(Least(starts))
             IN  SubSeq(c, a, Many(c, a, C) - 1)

\* r'BeginTx: (true)'
search_begin_tx(c) ==
    \E i \in 1..Len(c) : Lit(c, i, <<"BeginTx", ":", SP, "true">>) # 0

\* match.group(1).strip() where there is a match.
stripped(v) == IF v = Unset THEN Unset ELSE strip(v)

\* str(x) in an f-string.
fstr(x) == IF x = Unset THEN <<"None">> ELSE x

\* LogEntry(...) with the fields parse_line gives it at construction, lines
\* 101-108, and the defaults of the dataclass.
NewLogEntry(node, process, log_level, message_type, raw) ==
    [timestamp |-> <<>>, node |-> node, process |-> process,
     message_type |-> message_type, log_level |-> log_level, begin_tx |-> FALSE,
     session_id |-> Unset, trace_id |-> Unset, phy_tx_id |-> Unset,
     lock_id |-> UnsetList, status |-> Unset, query_text |-> Unset, key |-> Unset,
     issues |-> Unset, break_lock_id |-> UnsetList, tx_id |-> Unset,
     query_action |-> Unset, query_type |-> Unset, component |-> Unset,
     raw_line |-> raw]

\* setattr(entry, field, value) when the pattern matched.
SetIfMatched(old, v) == IF v = Unset THEN old ELSE v

\* The loop over self.compiled_patterns, lines 111-132.
extract_fields(entry, c) ==
    LET locks == findall_lock_id(c, 1)
        breaks == stripped(search_enclosed(c, <<"BreakLocks", ":">>, "[", "]",
                                           "NotCloseBracket"))
        text == stripped(search_query_text(c))
        plain(f) == stripped(search_label(c, Labels[f], "NotCommaSpace"))
    IN  [entry EXCEPT
           !.timestamp = SetIfMatched(@, stripped(search_timestamp(c))),
           !.session_id = SetIfMatched(@, plain("session_id")),
           !.trace_id = SetIfMatched(@, plain("trace_id")),
           !.phy_tx_id =
               SetIfMatched(@, stripped(search_label(c, Labels.phy_tx_id, "IsDigits"))),
           !.lock_id = IF locks # <<>> THEN locks ELSE @,
           !.status = SetIfMatched(@, plain("status")),
           !.query_text =
               IF text = Unset THEN @
               ELSE replace(replace(text, <<BS, "n">>, NL), <<BS, QT>>, QT),
           !.key = SetIfMatched(@, plain("key")),
           !.issues =
               SetIfMatched(@, stripped(search_enclosed(c, <<"Issues", ":">>, "{", "}",
                                                        "NotCloseBrace"))),
           !.break_lock_id = IF breaks = Unset THEN @ ELSE split(breaks),
           !.component = SetIfMatched(@, plain("component")),
           !.tx_id = SetIfMatched(@, plain("tx_id")),
           !.query_action = SetIfMatched(@, plain("query_action")),
           !.query_type = SetIfMatched(@, plain("query_type")),
           !.begin_tx = IF search_begin_tx(c) THEN TRUE ELSE @]

\* Lines 100-134: the entry built from the two matches.
parse_entry(l, basic, level) ==
    IF ~level.ok THEN [none |-> TRUE]
    ELSE [none |-> FALSE,
          entry |->
              extract_fields(
                  NewLogEntry(basic.node,
                              fstr(basic.process) \o <<"[">> \o fstr(basic.pid)
                                  \o <<"]">>,
                              level.log_level, level.message_type, l),
                  basic.content)]

\* Lines 96-98: the marker is looked for in the content.
parse_content(l, basic) ==
    IF ~basic.ok THEN [none |-> TRUE]
    ELSE parse_entry(l, basic, level_match(basic.content))

\* LogParser.parse_line: no record, or the entry.
parse_line(fmt, l) ==
    IF strip(l) = <<>> THEN [none |-> TRUE]
    ELSE parse_content(l, IF fmt = "systemd" THEN basic_match(l)
                          ELSE [ok |-> TRUE, node |-> Unset, process |-> Unset,
                                pid |-> Unset, content |-> l])

----------------------------------------------------------------------------
\* The lines explored.  A line is written, as ydbd writes it, from an
\* optional systemd prefix, a timestamp, the ':<CATEGORY> <LEVEL>:' marker
\* and 'Label: value' fields separated by commas; other lines lack or
\* garble one of these parts.

\* Most fields written into one line.
MaxFields == 2

SystemdPrefix ==
    <<"oct", SP, "22", SP, "10", ":", "54", ":", "51", SP, "node3", SP,
      "ydbd", "[", "889", "]", ":", SP>>

\* A prefix without the pid in brackets.
PrefixNoPid ==
    <<"oct", SP, "22", SP, "10", ":", "54", ":", "51", SP, "node3", SP,
      "ydbd", ":", SP>>

Marker == <<":", "DATA_INTEGRITY", SP, "DEBUG", ":", SP>>

\* The marker without its leading colon.
MarkerNoColon == <<"DATA_INTEGRITY", SP, "DEBUG", ":", SP>>

\* 'Label: value'
WriteLabel(label, value) == label \o <<SP>> \o value

\* A query text as it is logged: quotes and newlines escaped by a backslash.
RECURSIVE escape(_)
escape(v) ==
    IF v = <<>> THEN <<>>
    ELSE (IF v[1] = QT THEN <<BS, QT>>
          ELSE IF v[1] = NL THEN <<BS, "n">>
          ELSE <<v[1]>>) \o escape(Tail(v))

WriteQueryText(v) == <<"QueryText", ":", SP, QT>> \o escape(v) \o <<QT>>

WriteIssues(v) == <<"Issues", ":", SP, "{", SP>> \o v \o <<SP, "}">>

\* A field of a line: the LogEntry field it is meant for, the value written
\* (a list of strings: one string for a plain field, none where the label is
\* written with an empty value) and the text in the line.
Fragment(field, value, text) == [field |-> field, value |-> value, text |-> text]

Plain(field, v) == Fragment(field, <<v>>, WriteLabel(Labels[field], v))

QueryTextValue == <<"SELECT", SP, QT, "a", QT, NL, SP, "x">>
IssuesValue == <<"locks", SP, "invalidated">>

Fragments ==
    << Plain("session_id", <<"S1">>),
       Fragment("session_id", <<>>, Labels.session_id \o <<SP>>),
       Plain("tx_id", <<"X1">>),
       Plain("phy_tx_id", <<"123">>),
       Plain("lock_id", <<"11">>),
       Plain("lock_id", <<"12">>),
       Fragment("lock_id", <<>>, WriteLabel(Labels.lock_id, <<"X1">>)),
       Plain("status", <<"ABORTED">>),
       Fragment("query_text", <<QueryTextValue>>, WriteQueryText(QueryTextValue)),
       Fragment("query_text", <<>>, WriteQueryText(<<>>)),
       Fragment("issues", <<IssuesValue>>, WriteIssues(IssuesValue)),
       Fragment("issues", <<>>, <<"Issues", ":", SP, "{", SP, "}">>),
       Fragment("break_lock_id", <<<<"11">>, <<"12">>>>,
                <<"BreakLocks", ":", SP, "[", "11", SP, "12", "]">>),
       Fragment("begin_tx", <<<<"true">>>>, <<"BeginTx", ":", SP, "true">>),
       Plain("trace_id", <<"T1">>) >>

\* The fields of fs written one after the other, a comma between them.
RECURSIVE JoinFields(_)
JoinFields(fs) ==
    IF fs = <<>> THEN <<>>
    ELSE IF Len(fs) = 1 THEN fs[1].text
    ELSE fs[1].text \o <<",">> \o JoinFields(Tail(fs))

\* The sequences of at most MaxFields fragments.
FieldLists ==
    UNION {[1..n -> {Fragments[i] : i \in 1..Len(Fragments)}] : n \in 0..MaxFields}

\* Lines written from fields, with and without the systemd prefix.
WrittenLines ==
    {[text |-> prefix \o <<TS, SP>> \o Marker \o JoinFields(fs), fields |-> fs] :
        prefix \in {SystemdPrefix, <<>>}, fs \in FieldLists}

\* Blank lines, and lines with each part present, garbled or missing.
OtherLines ==
    {[text |-> t, fields |-> <<>>] :
        t \in {<<>>, <<SP, SP>>, <<NL>>, <<SP, NL>>}
              \cup {prefix \o stamp \o marker \o body \o tail :
                      prefix \in {SystemdPrefix, PrefixNoPid, <<>>},
                      stamp \in {<<TS, SP>>, <<"INVALID_TIMESTAMP", SP>>, <<>>},
                      marker \in {Marker, MarkerNoColon, <<>>},
                      body \in {Fragments[1].text, <<>>},
                      tail \in {<<>>, <<NL>>}}}

Lines == WrittenLines \cup OtherLines

\* A LogParser of either format is about to parse a line.
ParserInit ==
    /\ format \in {"systemd", "raw"}
    /\ \E src \in Lines : line = src.text /\ written = src.fields
    /\ parsed = Pending
    /\ pool = {}
    /\ collect_details = FALSE
    /\ scanned = <<>>
    /\ heap = <<>>
    /\ chains = <<>>
    /\ queries_by_tx = <<>>
    /\ session_current_tx = <<>>
    /\ chains_by_lock_id = <<>>
    /\ chains_by_culprit_phy_tx_id = <<>>
    /\ chains_by_culprit_trace_id = <<>>
    /\ entries_by_trace = <<>>
    /\ warnings = <<>>
    /\ returned = <<>>
    /\ pc = "scan"
    /\ StreamIdle

\* The call parse_line(line).
ParseLine ==
    /\ ~parsed.called
    /\ parsed' = [called |-> TRUE, result |-> parse_line(format, line)]
    /\ UNCHANGED <<format, line, written>>
    /\ UNCHANGED tracer_vars
    /\ UNCHANGED stream_vars

ParserNext == ParseLine

ParserSpec == ParserInit /\ [][ParserNext]_vars

----------------------------------------------------------------------------
\* The input pipeline: sort_log_stream (src/log_sorter.py) and
\* LogParser.parse_stream (src/log_parser.py).
\*
\* A stream is a sequence of lines; each line is followed by a newline in
\* the file and is kept here without it.

\* Most lines in a stream.
MaxStream == 3

\* The lines a stream is made of: two systemd lines and two raw lines of
\* different timestamps, a line that is no log line, and an empty line.
StreamLines ==
    { SystemdPrefix \o <<TS, SP>> \o Marker \o Fragments[1].text,
      SystemdPrefix \o <<TS2, SP>> \o Marker \o Fragments[4].text,
      <<TS, SP>> \o Marker \o Fragments[15].text,
      <<TS2, SP>> \o Marker \o Fragments[8].text,
      <<"Invalid", SP, "line">>,
      <<>> }

Streams == UNION {[1..n -> StreamLines] : n \in 0..MaxStream}

\* The tokens of the stream lines in the byte order of their text, which is
\* the order sort compares by in the C locale.
ByteOrder ==
    << SP, "10", "123", TS, TS2, "22", "51", "54", "889", ":", "ABORTED",
       "DATA_INTEGRITY", "DEBUG", "Invalid", "Phy", "S1", "SessionId", "Status",
       "T1", "TraceId", "TxId", "[", "]", "line", "node3", "oct", "ydbd" >>

Rank(t) == CHOOSE i \in 1..Len(ByteOrder) : ByteOrder[i] = t

\* String comparison: a < b.
RECURSIVE Less(_, _)
Less(a, b) ==
    IF b = <<>> THEN FALSE
    ELSE IF a = <<>> THEN TRUE
    ELSE IF a[1] = b[1] THEN Less(Tail(a), Tail(b))
    ELSE Rank(a[1]) < Rank(b[1])

\* The cursors after each of the first n fields of sort: a field is a run of
\* non-blanks with the blanks before it.
FieldSteps(n) ==
    [i \in 1..(2 * n) |->
        IF i % 2 = 1 THEN [op |-> "Many", arg |-> "IsSpace"]
        ELSE [op |-> "Many", arg |-> "NotSpace"]]

\* The key of -k<n>,<n>: field n of the line, empty where the line has
\* fewer fields.
KeyAt(l, ends, n) ==
    SubSeq(l, IF n = 1 THEN 1 ELSE ends[2 * n - 2], ends[2 * n] - 1)

sort_key(l, ts_pos) == KeyAt(l, Cursors(l, 1, FieldSteps(ts_pos)), ts_pos)

\* sort -k<n>,<n> -r puts a before b: by the key, reversed, and for equal
\* keys by the whole line, reversed.
ComesFirst(ka, a, kb, b) ==
    IF ka = kb THEN ~Less(a, b) ELSE Less(kb, ka)

\* The output of sort: l inserted into the sorted lines out.
RECURSIVE Insert(_, _, _)
Insert(l, out, ts_pos) ==
    IF out = <<>> THEN <<l>>
    ELSE IF ComesFirst(sort_key(l, ts_pos), l, sort_key(out[1], ts_pos), out[1])
    THEN <<l>> \o out
    ELSE <<out[1]>> \o Insert(l, Tail(out), ts_pos)

RECURSIVE sort(_, _)
sort(lines, ts_pos) ==
    IF lines = <<>> THEN <<>>
    ELSE Insert(lines[1], sort(Tail(lines), ts_pos), ts_pos)

\* line.rstrip('\n')
rstrip_newline(l) ==
    SubSeq(l, 1, Len(l) - Len(SelectSeq(l, LAMBDA t : t = NL)))

\* What the generator yields from the lines out that sort has written, each
\* ending with a newline: process.stdout.readline(), which is the first
\* line as it is, or the empty string at the end of the file; then the
\* other lines without their newline.
yield_lines(out) ==
    <<IF out = <<>> THEN <<>> ELSE out[1] \o <<NL>>>>
        \o [i \in 1..(Len(out) - 1) |-> rstrip_newline(out[i + 1] \o <<NL>>)]

\* sort_log_stream(input_stream, format), run to its end.
sort_log_stream(input_stream, fmt) ==
    yield_lines(sort(input_stream, IF fmt = "systemd" THEN 6 ELSE 1))

\* 'if entry: yield entry'
yield_entry(out, result) == IF result.none THEN out ELSE Append(out, result.entry)

\* A parser of either format and a stream to read.
StreamInit ==
    /\ format \in {"systemd", "raw"}
    /\ stream \in Streams
    /\ line_num = 0
    /\ yielded = <<>>
    /\ printed = <<>>
    /\ sorted = Pending
    /\ line = <<>>
    /\ written = <<>>
    /\ parsed = Pending
    /\ pool = {}
    /\ collect_details = FALSE
    /\ scanned = <<>>
    /\ heap = <<>>
    /\ chains = <<>>
    /\ queries_by_tx = <<>>
    /\ session_current_tx = <<>>
    /\ chains_by_lock_id = <<>>
    /\ chains_by_culprit_phy_tx_id = <<>>
    /\ chains_by_culprit_trace_id = <<>>
    /\ entries_by_trace = <<>>
    /\ warnings = <<>>
    /\ returned = <<>>
    /\ pc = "scan"

\* One iteration of the loop of parse_stream: the line with its newline goes
\* to parse_line, and an entry is yielded.  parse_line has no raising path,
\* so the except branch prints nothing.
ReadLine ==
    /\ line_num < Len(stream)
    /\ line_num' = line_num + 1
    /\ yielded' = yield_entry(yielded, parse_line(format, stream[line_num + 1] \o <<NL>>))
    /\ printed' = printed
    /\ UNCHANGED <<stream, sorted>>
    /\ UNCHANGED parser_vars
    /\ UNCHANGED tracer_vars

\* The stream goes through sort_log_stream.
SortStream ==
    /\ ~sorted.called
    /\ sorted' = [called |-> TRUE, items |-> sort_log_stream(stream, format)]
    /\ UNCHANGED <<stream, line_num, yielded, printed>>
    /\ UNCHANGED parser_vars
    /\ UNCHANGED tracer_vars

StreamNext == ReadLine \/ SortStream

StreamSpec == StreamInit /\ [][StreamNext]_vars

\* Vocabulary of the properties.

\* The entry scanned last.
Last == scanned[Len(scanned)]

\* A step that scans one more entry.
Scans == Len(scanned') = Len(scanned) + 1

\* The entry a scanning step delivers.
Scanned == scanned'[Len(scanned')]

\* An invalidation record, as the properties describe it: the issues contain
\* the marker text and the status is ABORTED.
InvalidationRecord(e) ==
    /\ \E i \in 1..Len(e.issues) : e.issues[i] = "Transaction locks invalidated"
    /\ e.status = "ABORTED"

\* An id that is set.
IsSet(x) == x # None /\ x # ""

\* The chains of the returned list.
ReturnedChains == {heap[returned[i]] : i \in 1..Len(returned)}

\* The fields of a chain that the scan fills.
FilledFields ==
    {"lock_id", "victim_phy_tx_id", "culprit_phy_tx_id", "culprit_trace_id",
     "culprit_session_id", "culprit_tx_id"}

----------------------------------------------------------------------------
\* C1: after the scan of any record stream the returned list holds at most
\* one chain per victim trace id, however many invalidation records carry
\* that trace id.
C1_OneChainPerVictimTrace ==
    pc = "done" =>
        \A i, j \in 1..Len(returned) :
            heap[returned[i]].victim_trace_id = heap[returned[j]].victim_trace_id
                => i = j

\* Two invalidation records of one trace, both with a session id, were
\* scanned and one chain of that trace is returned.
C1_Witness ==
    /\ pc = "done"
    /\ \E i, j \in 1..Len(scanned) :
          /\ i < j
          /\ InvalidationRecord(scanned[i]) /\ InvalidationRecord(scanned[j])
          /\ IsSet(scanned[i].trace_id) /\ scanned[i].trace_id = scanned[j].trace_id
          /\ IsSet(scanned[i].session_id) /\ IsSet(scanned[j].session_id)
          /\ \E k \in 1..Len(returned) :
                heap[returned[k]].victim_trace_id = scanned[i].trace_id

\* C2 (as claimed): when an invalidation record is scanned whose trace id
\* already owns a chain, the chain stored for that trace id keeps its victim
\* record, victim session id, victim tx id, table name and every field
\* already filled.
C2_ExistingChainKept ==
    [][ (Scans /\ InvalidationRecord(Scanned) /\ DictHas(chains, Scanned.trace_id))
        => LET old == heap[DictGet(chains, Scanned.trace_id, 0)]
               new == heap'[DictGet(chains', Scanned.trace_id, 0)]
           IN  /\ DictHas(chains', Scanned.trace_id)
               /\ new.victim_entry = old.victim_entry
               /\ new.victim_session_id = old.victim_session_id
               /\ new.victim_tx_id = old.victim_tx_id
               /\ new.table_name = old.table_name
               /\ \A f \in FilledFields : IsSet(old[f]) => new[f] = old[f] ]_vars

\* C3 (as claimed): the returned list holds every chain object created
\* during the scan.
C3_ReturnsEveryCreatedChain ==
    pc = "done" => \A c \in 1..Len(heap) : c \in SeqRange(returned)

\* The four-record stream of C4: the records carry the ids the scenario
\* lists; the break event has no trace id of its own and the last record is
\* not itself an invalidation record.
C4_FourRecordStream(r1, r2, r3, r4) ==
    /\ InvalidationRecord(r1) /\ IsSet(r1.trace_id) /\ IsSet(r1.session_id)
    /\ r2.status = "LOCKS_BROKEN" /\ r2.trace_id = r1.trace_id
    /\ r2.lock_id # <<>>
    /\ r2.lock_id[1] \in SeqRange(r3.break_lock_id)
    /\ IsSet(r3.phy_tx_id) /\ r3.phy_tx_id # r2.phy_tx_id
    /\ ~IsSet(r3.trace_id)
    /\ r4.phy_tx_id = r3.phy_tx_id
    /\ IsSet(r4.trace_id) /\ r4.trace_id # "Empty"
    /\ IsSet(r4.session_id)
    /\ IsSet(r4.tx_id) /\ r4.tx_id # "Empty" /\ r4.tx_id # r4.phy_tx_id
    /\ ~InvalidationRecord(r4)

\* C4: the four-record stream (invalidation record of trace T and session S;
\* LOCKS_BROKEN record of T with lock id L; break event listing L with
\* physical-transaction id P other than the victim's and no trace id of its
\* own; a record, not itself an invalidation record, carrying P, trace T',
\* session S' and tx id X other than P) yields exactly one chain, with
\* victim T and S, lock id L and culprit ids P, T', S' and X.
C4_FourRecordChain ==
    (/\ pc = "done"
     /\ Len(scanned) = 4
     /\ C4_FourRecordStream(scanned[1], scanned[2], scanned[3], scanned[4]))
    => /\ Len(returned) = 1
       /\ LET chain == heap[returned[1]]
          IN  /\ chain.victim_trace_id = scanned[1].trace_id
              /\ chain.victim_session_id = scanned[1].session_id
              /\ chain.lock_id = scanned[2].lock_id[1]
              /\ chain.culprit_phy_tx_id = scanned[3].phy_tx_id
              /\ chain.culprit_trace_id = scanned[4].trace_id
              /\ chain.culprit_session_id = scanned[4].session_id
              /\ chain.culprit_tx_id = scanned[4].tx_id

\* The four-record stream was scanned and its chain, complete on both sides,
\* is returned.
C4_Witness ==
    /\ pc = "done"
    /\ Len(scanned) = 4
    /\ C4_FourRecordStream(scanned[1], scanned[2], scanned[3], scanned[4])
    /\ Len(returned) = 1
    /\ heap[returned[1]].culprit_tx_id = scanned[4].tx_id
    /\ heap[returned[1]].culprit_session_id = scanned[4].session_id

\* An invalidation record that lacks a trace id or a session id.
C5_Defective(e) ==
    InvalidationRecord(e) /\ (~IsSet(e.trace_id) \/ ~IsSet(e.session_id))

\* C5: an invalidation record without a trace id or without a session id
\* creates no chain and leaves the chain set as it was; a stream of only
\* such records yields no chain.
C5_NoChainWithoutIds ==
    [][ /\ (Scans /\ C5_Defective(Scanned))
            => (Len(heap') = Len(heap) /\ chains' = chains)
        /\ (pc' = "done" /\ \A i \in 1..Len(scanned') : C5_Defective(scanned'[i]))
            => returned' = <<>> ]_vars

\* A stream of one invalidation record without trace id and one without
\* session id was scanned, and nothing is returned.
C5_Witness ==
    /\ pc = "done"
    /\ \A i \in 1..Len(scanned) : C5_Defective(scanned[i])
    /\ \E i \in 1..Len(scanned) : ~IsSet(scanned[i].trace_id)
    /\ \E i \in 1..Len(scanned) : ~IsSet(scanned[i].session_id)
    /\ returned = <<>>

\* The trace ids that occur in the scanned records or in a chain.
C6_Traces ==
    {scanned[i].trace_id : i \in 1..Len(scanned)}
        \cup {heap[c].victim_trace_id : c \in 1..Len(heap)}

\* C6: after the scan a chain for trace id T exists if and only if some
\* scanned record is an invalidation record with trace id T and a session
\* id; with no such record nothing is returned.
C6_ChainIffInvalidation ==
    pc = "done" =>
        /\ \A t \in {x \in C6_Traces : IsSet(x)} :
              (\E ch \in ReturnedChains : ch.victim_trace_id = t)
              <=> (\E i \in 1..Len(scanned) :
                      /\ InvalidationRecord(scanned[i])
                      /\ scanned[i].trace_id = t
                      /\ IsSet(scanned[i].session_id))
        /\ (\A i \in 1..Len(scanned) :
               ~(/\ InvalidationRecord(scanned[i])
                 /\ IsSet(scanned[i].trace_id) /\ IsSet(scanned[i].session_id)))
            => returned = <<>>

\* A chain is returned for one trace and none for another trace of which
\* only an aborted record without the marker text was scanned.
C6_Witness ==
    /\ pc = "done"
    /\ returned # <<>>
    /\ \E i \in 1..Len(scanned) :
          /\ scanned[i].status = "ABORTED"
          /\ ~InvalidationRecord(scanned[i])
          /\ IsSet(scanned[i].trace_id) /\ IsSet(scanned[i].session_id)
          /\ \A ch \in ReturnedChains : ch.victim_trace_id # scanned[i].trace_id

\* C7: a break event whose physical-transaction id equals the one already
\* recorded for the victim of the chain owning a lock it lists leaves that
\* chain's culprit physical-transaction id as it was.
C7_OwnBreakNeverCulprit ==
    [][ Scans =>
          \A k \in 1..Len(Scanned.break_lock_id) :
              LET c == DictGet(chains_by_lock_id, Scanned.break_lock_id[k], 0)
              IN  (/\ c # 0
                   /\ IsSet(heap[c].victim_phy_tx_id)
                   /\ heap[c].victim_phy_tx_id = Scanned.phy_tx_id)
                  => heap'[c].culprit_phy_tx_id = heap[c].culprit_phy_tx_id ]_vars

\* The last record is a break event of the victim's own physical
\* transaction listing the chain's lock, and the chain has no culprit.
C7_Witness ==
    /\ pc = "scan"
    /\ scanned # <<>>
    /\ \E c \in 1..Len(heap) :
          /\ IsSet(heap[c].lock_id)
          /\ heap[c].lock_id \in SeqRange(Last.break_lock_id)
          /\ DictGet(chains_by_lock_id, heap[c].lock_id, 0) = c
          /\ IsSet(heap[c].victim_phy_tx_id)
          /\ heap[c].victim_phy_tx_id = Last.phy_tx_id
          /\ ~IsSet(heap[c].culprit_phy_tx_id)

\* C8: in every state and for every chain, the culprit tx id, when set,
\* differs from the chain's culprit physical-transaction id.
C8_CulpritTxIsNotPhyTx ==
    \A c \in 1..Len(heap) :
        IsSet(heap[c].culprit_tx_id)
            => heap[c].culprit_tx_id # heap[c].culprit_phy_tx_id

\* The last record belongs to the chain's culprit trace and carries the
\* culprit's physical-transaction id as its tx id; the culprit tx id is unset.
C8_Witness ==
    /\ pc = "scan"
    /\ scanned # <<>>
    /\ \E c \in 1..Len(heap) :
          /\ IsSet(heap[c].culprit_trace_id)
          /\ heap[c].culprit_trace_id = Last.trace_id
          /\ c \in SeqRange(DictGet(chains_by_culprit_trace_id, Last.trace_id, <<>>))
          /\ IsSet(Last.tx_id)
          /\ Last.tx_id = heap[c].culprit_phy_tx_id
          /\ ~IsSet(heap[c].culprit_tx_id)

\* The warnings a step logs.
NewWarnings == SubSeq(warnings', Len(warnings) + 1, Len(warnings'))

\* C9: a LOCKS_BROKEN record of a victim trace whose chain has no lock id
\* gives the chain the first lock id of its list; the several-lock-ids
\* warning is logged when the list has more than one element and not when
\* it has exactly one.
C9_FirstLockIdAdopted ==
    [][ Scans =>
          LET e == Scanned
              c == DictGet(chains, e.trace_id, 0)
          IN  (/\ e.status = "LOCKS_BROKEN"
               /\ c # 0
               /\ ~IsSet(heap[c].lock_id)
               /\ e.lock_id # <<>>)
              => /\ heap'[c].lock_id = e.lock_id[1]
                 /\ DictGet(chains_by_lock_id', e.lock_id[1], 0) = c
                 /\ Len(e.lock_id) > 1
                      <=> (\E w \in 1..Len(NewWarnings) :
                              NewWarnings[w].msg = "several LockId") ]_vars

\* The last record is a LOCKS_BROKEN record with several lock ids, whose
\* first lock id the chain of its trace has adopted with a warning.
C9_Witness ==
    /\ pc = "scan"
    /\ scanned # <<>>
    /\ Last.status = "LOCKS_BROKEN"
    /\ Len(Last.lock_id) > 1
    /\ Last.lock_id[1] # Last.lock_id[Len(Last.lock_id)]
    /\ DictHas(chains, Last.trace_id)
    /\ heap[DictGet(chains, Last.trace_id, 0)].lock_id = Last.lock_id[1]
    /\ warnings # <<>>
    /\ warnings[Len(warnings)].msg = "several LockId"
    /\ \A i \in 1..(Len(scanned) - 1) : scanned[i].status # "LOCKS_BROKEN"

\* C10: first write wins: once the lock id, the victim or culprit
\* physical-transaction id, the culprit trace id, session id or tx id of a
\* chain is set, no later step of the scan or of the finalization changes it.
C10_FirstWriteWins ==
    [][ \A c \in 1..Len(heap) :
          \A f \in FilledFields :
              IsSet(heap[c][f]) => heap'[c][f] = heap[c][f] ]_vars

\* The returned chain keeps the session id and tx id it got first although
\* the record scanned last, of the culprit's trace, carries other ones.
C10_Witness ==
    /\ pc = "done"
    /\ scanned # <<>>
    /\ \E ch \in ReturnedChains :
          /\ IsSet(ch.culprit_trace_id) /\ ch.culprit_trace_id = Last.trace_id
          /\ IsSet(ch.culprit_tx_id) /\ IsSet(Last.tx_id)
          /\ Last.tx_id # ch.culprit_tx_id /\ Last.tx_id # ch.culprit_phy_tx_id
          /\ IsSet(ch.culprit_session_id) /\ IsSet(Last.session_id)
          /\ Last.session_id # ch.culprit_session_id

\* The query lists of a chain.
QueryLists(ch) == {ch.victim_queries, ch.culprit_queries}

\* C11: in every returned chain the victim query list and the culprit query
\* list are in non-decreasing order of timestamp, and records of equal
\* timestamp stand in the order in which they were scanned.
C11_QueryListsSorted ==
    pc = "done" =>
        \A ch \in ReturnedChains :
            \A qs \in QueryLists(ch) :
                \A i, j \in 1..Len(qs) :
                    i < j =>
                        /\ scanned[qs[i]].timestamp <= scanned[qs[j]].timestamp
                        /\ scanned[qs[i]].timestamp = scanned[qs[j]].timestamp
                               => qs[i] < qs[j]

\* A returned chain whose culprit query list starts with a record that was
\* scanned after the record that follows it.
C11_Witness ==
    /\ pc = "done"
    /\ \E ch \in ReturnedChains :
          /\ Len(ch.culprit_queries) >= 2
          /\ ch.culprit_queries[1] > ch.culprit_queries[2]
          /\ scanned[ch.culprit_queries[1]].timestamp
                < scanned[ch.culprit_queries[2]].timestamp

----------------------------------------------------------------------------
\* The instance fields of a fresh correlator.
Fresh ==
    [heap |-> <<>>, chains |-> <<>>, queries_by_tx |-> <<>>,
     session_current_tx |-> <<>>, chains_by_lock_id |-> <<>>,
     chains_by_culprit_phy_tx_id |-> <<>>, chains_by_culprit_trace_id |-> <<>>,
     entries_by_trace |-> <<>>, warnings |-> <<>>]

\* The instance fields after the scan of the first n records of log (the
\* test of before has it evaluated ahead of the next record's processing).
RECURSIVE Replay(_, _, _)
Replay(log, n, details) ==
    IF n = 0 THEN Fresh
    ELSE LET before == Replay(log, n - 1, details)
         IN  IF before.warnings = <<>> \/ before.warnings # <<>>
             THEN process_entry(before, log, n, details)
             ELSE before

\* What chain creation gives each trace id: the chain's victim session id,
\* victim tx id and table name.
Created(s) ==
    [i \in 1..Len(s.chains) |->
        LET ch == s.heap[s.chains[i].v]
        IN  <<s.chains[i].k, ch.victim_session_id, ch.victim_trace_id,
              ch.victim_tx_id, ch.table_name>>]

\* A query record that names neither a transaction nor a session.
Unattributable(e) ==
    IsSet(e.query_action) /\ ~IsSet(e.tx_id) /\ ~IsSet(e.session_id)

\* The positions held by the query lists of the accumulator and of the chains.
Attributed ==
    UNION {SeqRange(queries_by_tx[k].v) : k \in 1..Len(queries_by_tx)}
      \cup UNION {SeqRange(heap[c].victim_queries) \cup SeqRange(heap[c].culprit_queries) :
                     c \in 1..Len(heap)}

\* C12: a record with a query action but neither tx id nor session id is in
\* no transaction's query list and in no chain's victim or culprit queries,
\* and the chains created for the trace ids are those the stream creates
\* without such records.
C12_UnattributableQueryDropped ==
    /\ \A i \in 1..Len(scanned) : Unattributable(scanned[i]) => i \notin Attributed
    /\ LET rest == SelectSeq(scanned, LAMBDA e : ~Unattributable(e))
       IN  Created(Self) = Created(Replay(rest, Len(rest), collect_details))

\* A query record without tx id and session id was scanned, a warning was
\* logged for it, and the chain of an invalidation record scanned after it is
\* returned with a query of its transaction.
C12_Witness ==
    /\ pc = "done"
    /\ \E i, j \in 1..Len(scanned) :
          /\ i < j
          /\ Unattributable(scanned[i])
          /\ \E w \in 1..Len(warnings) :
                warnings[w].msg = "query has no TxId and no SessionId"
          /\ \E ch \in ReturnedChains :
                ch.victim_entry = j /\ ch.victim_queries # <<>>

----------------------------------------------------------------------------
\* A query record that names a session and no transaction.
SessionOnlyQuery(e) ==
    IsSet(e.query_action) /\ IsSet(e.session_id) /\ ~IsSet(e.tx_id)

\* The positions before p of the records that name the session of log[p]
\* together with a tx id (any set value of the TxId field).
Pairings(log, p) ==
    {i \in 1..(p - 1) : log[i].session_id = log[p].session_id /\ IsSet(log[i].tx_id)}

\* The last position before p of a record naming the session of log[p] and a
\* tx id; 0 when there is none.
LastPairing(log, p) ==
    IF Pairings(log, p) = {} THEN 0
    ELSE CHOOSE i \in Pairings(log, p) : \A j \in Pairings(log, p) : j <= i

\* A begin-transaction record without tx id of the session of log[p] lies
\* strictly between positions r and p.
BeginBetween(log, r, p) ==
    \E j \in (r + 1)..(p - 1) :
        /\ log[j].session_id = log[p].session_id
        /\ log[j].begin_tx
        /\ ~IsSet(log[j].tx_id)

\* The transaction that the scan history gives the session-only query at
\* position p; None when there is none.
TxOfSession(log, p) ==
    LET r == LastPairing(log, p)
    IN  IF r # 0 /\ ~BeginBetween(log, r, p) THEN log[r].tx_id ELSE None

\* C13: a query record with a session id and no tx id is in the query list
\* of the tx id named by the last record scanned before it with the same
\* session and a tx id, when no begin-transaction record of the session
\* without tx id was scanned in between; in the returned list it is in the
\* victim queries of every chain whose victim tx id is that transaction and
\* in the culprit queries of every chain whose culprit tx id is.
C13_SessionQueryAttributed ==
    \A p \in 1..Len(scanned) :
        LET t == TxOfSession(scanned, p)
        IN  (SessionOnlyQuery(scanned[p]) /\ t # None)
                => /\ p \in SeqRange(DictGet(queries_by_tx, t, <<>>))
                   /\ pc = "done" =>
                        \A ch \in ReturnedChains :
                            /\ ch.victim_tx_id = t => p \in SeqRange(ch.victim_queries)
                            /\ ch.culprit_tx_id = t => p \in SeqRange(ch.culprit_queries)

\* A returned chain holds, among the queries of its victim transaction, a
\* query record that names only the session; before it the session was
\* scanned first with another tx id and then with the victim's.
C13_Witness ==
    /\ pc = "done"
    /\ \E ch \in ReturnedChains :
          \E p \in SeqRange(ch.victim_queries) :
              /\ SessionOnlyQuery(scanned[p])
              /\ TxOfSession(scanned, p) = ch.victim_tx_id
              /\ \E i \in Pairings(scanned, p) :
                    /\ i < LastPairing(scanned, p)
                    /\ scanned[i].tx_id # ch.victim_tx_id

----------------------------------------------------------------------------
\* The session ids of the scanned records.
Sessions == {scanned[i].session_id : i \in 1..Len(scanned)} \ {None}

\* The positions up to n of the records that name session ses with a tx id
\* or with the begin-transaction flag.
Marks(log, n, ses) ==
    {i \in 1..n : log[i].session_id = ses /\ (IsSet(log[i].tx_id) \/ log[i].begin_tx)}

\* The active transaction of session ses after the first n records, from the
\* scan history: the tx id of the last record naming ses with a tx id, unless
\* a begin-transaction record of ses without tx id came after it.
ActiveTx(log, n, ses) ==
    IF Marks(log, n, ses) = {} THEN None
    ELSE LET i == CHOOSE i \in Marks(log, n, ses) : \A j \in Marks(log, n, ses) : j <= i
         IN  IF IsSet(log[i].tx_id) THEN log[i].tx_id ELSE None

\* C14: the active transaction of every session is the one its last record
\* with a tx id or the begin flag leaves: none after a begin-transaction
\* record without tx id, the record's tx id after a record with a tx id,
\* with or without the begin flag; and a session-only query scanned while
\* its session has no active transaction is in no query list.
C14_BeginClearsSession ==
    /\ \A ses \in Sessions :
          DictGet(session_current_tx, ses, None) = ActiveTx(scanned, Len(scanned), ses)
    /\ \A p \in 1..Len(scanned) :
          (/\ SessionOnlyQuery(scanned[p])
           /\ ActiveTx(scanned, p - 1, scanned[p].session_id) = None)
              => p \notin Attributed

\* The session was scanned with a tx id, then with the begin flag and no tx
\* id, then in a session-only query that went to no list, and last with
\* both a tx id and the begin flag, which is now its active transaction.
C14_Witness ==
    /\ pc = "scan"
    /\ \E i, b, p \in 1..Len(scanned) :
          /\ i < b /\ b < p /\ p < Len(scanned)
          /\ scanned[i].session_id = Last.session_id /\ IsSet(scanned[i].tx_id)
          /\ scanned[b].session_id = Last.session_id /\ scanned[b].begin_tx
          /\ ~IsSet(scanned[b].tx_id)
          /\ scanned[p].session_id = Last.session_id /\ SessionOnlyQuery(scanned[p])
          /\ p \notin Attributed
    /\ Last.begin_tx /\ IsSet(Last.tx_id) /\ IsSet(Last.session_id)
    /\ DictGet(session_current_tx, Last.session_id, None) = Last.tx_id
    /\ \E w \in 1..Len(warnings) : warnings[w].msg = "unable to infer TxId from SessionId"

----------------------------------------------------------------------------
\* The audit warnings, in order.
AuditWarnings == SelectSeq(warnings, LAMBDA w : w.msg = "Incomplete chain")

\* The returned chains that lack a required field, in order.
PartialChains == SelectSeq(returned, LAMBDA c : missing_fields(heap[c]) # <<>>)

\* A step of the run: the loop consumes one record of the stream, or the
\* stream is exhausted and the method returns.
StepOfRun ==
    \/ /\ pc = "scan" /\ pc' = "scan"
       /\ Len(scanned') = Len(scanned) + 1
       /\ SubSeq(scanned', 1, Len(scanned)) = scanned
    \/ /\ pc = "scan" /\ pc' = "done"
       /\ scanned' = scanned

\* What holds of a state after the return: the returned list is the list of
\* the chains, and every returned chain that lacks a required field is
\* reported by one audit warning naming the missing fields.
ReturnedPartial ==
    pc = "done" =>
        /\ returned = DictValues(chains)
        /\ \A i \in 1..Len(returned) : returned[i] \in 1..Len(heap)
        /\ Len(AuditWarnings) = Len(PartialChains)
        /\ \A i \in 1..Len(PartialChains) :
              AuditWarnings[i].missing = missing_fields(heap[PartialChains[i]])

----------------------------------------------------------------------------
\* s is an initial segment of t.
IsPrefix(s, t) == Len(s) <= Len(t) /\ SubSeq(t, 1, Len(s)) = s

\* No element occurs twice in s.
NoDuplicates(s) == \A i, j \in 1..Len(s) : s[i] = s[j] => i = j

\* log_details of a chain as the flag requires it, log being the stream
\* scanned: unset without collect_details; with it, the raw line of the
\* chain's invalidation record first, then raw lines of scanned records,
\* none twice.
DetailsAsFlagged(ch, log) ==
    IF collect_details
    THEN /\ ch.log_details # <<>>
         /\ ch.log_details[1] = log[ch.victim_entry].raw_line
         /\ NoDuplicates(ch.log_details)
         /\ \A i \in 1..Len(ch.log_details) :
               \E p \in 1..Len(log) : log[p].raw_line = ch.log_details[i]
    ELSE ch.log_details = <<>>

\* C16: without collect_details the log_details of every chain stays unset;
\* with it, log_details starts with the raw line of the chain's invalidation
\* record and every step only appends to it, raw lines of scanned records,
\* none of them twice.
C16_LogDetailsGrow ==
    [][ \A c \in 1..Len(heap') :
          /\ DetailsAsFlagged(heap'[c], scanned')
          /\ c <= Len(heap) => IsPrefix(heap[c].log_details, heap'[c].log_details) ]_vars

\* With collect_details, a chain holds three raw lines, that of its
\* invalidation record first, after a stream in which one of the records
\* that touched it was scanned twice.
C16_Witness ==
    /\ collect_details
    /\ Len(scanned) = 4
    /\ \E c \in 1..Len(heap) :
          /\ Len(heap[c].log_details) = 3
          /\ heap[c].log_details[1] = scanned[1].raw_line
          /\ scanned[2] = scanned[3]
          /\ heap[c].log_details[2] = scanned[2].raw_line
          /\ heap[c].log_details[3] = scanned[4].raw_line

----------------------------------------------------------------------------
\* Vocabulary of the properties of the parser.

\* The record parse_line returned.
Entry == parsed.result.entry

\* parse_line was called and returned a record.
Accepted == parsed.called /\ ~parsed.result.none

\* parse_line was called and returned no record.
Rejected == parsed.called /\ parsed.result.none

\* A line of white space only.
Blank(l) == \A i \in 1..Len(l) : IsSpace(l[i])

\* Every token of s is of class C, and there is one.
AllOf(s, C) == s # <<>> /\ \A i \in 1..Len(s) : Matches(C, s[i])

\* The text p holds a ':<CATEGORY> <LEVEL>:' marker: between two colons a
\* word, white space and a word.
HasMarker(p) ==
    LET colons == {i \in 1..Len(p) : p[i] = ":"}
    IN  \E a, d \in colons :
            /\ a < d
            /\ \E i, j \in (a + 1)..(d - 1) :
                  /\ i < j
                  /\ AllOf(SubSeq(p, a + 1, i - 1), "IsWord")
                  /\ AllOf(SubSeq(p, i, j - 1), "IsSpace")
                  /\ AllOf(SubSeq(p, j, d - 1), "IsWord")

\* The text e is a 'date host process[pid]:' prefix: separated by white
\* space a month, a day, a time h:m:s, a host and a process name that ends
\* with the pid in brackets and a colon.
IsEnvelope(e) ==
    LET parts == split(e)
        n == Len(e)
        open == {i \in 1..n : e[i] = "["}
    IN  /\ Len(parts) >= 5
        /\ AllOf(parts[1], "IsWord")
        /\ AllOf(parts[2], "IsDigits")
        /\ Len(parts[3]) = 5
        /\ \A k \in {1, 3, 5} : IsDigits(parts[3][k])
        /\ \A k \in {2, 4} : parts[3][k] = ":"
        /\ open # {}
        /\ LET b == Least(open)
           IN  /\ ~IsSpace(e[b - 1])
               /\ b < n - 2
               /\ AllOf(SubSeq(e, b + 1, n - 2), "IsDigits")
               /\ e[n - 1] = "]" /\ e[n] = ":"
               /\ Len(split(SubSeq(e, 1, b - 1))) >= 5

\* The lengths of the prefixes of l.
Envelopes(l) == {n \in 1..Len(l) : IsEnvelope(SubSeq(l, 1, n))}

\* What follows the prefix of l, the whole of l in the raw dialect.
Payload(fmt, l) ==
    IF fmt = "systemd" THEN SubSeq(l, Least(Envelopes(l)) + 1, Len(l)) ELSE l

\* The line is one parse_line has to reject.
ToReject(fmt, l) ==
    \/ Blank(l)
    \/ fmt = "systemd" /\ Envelopes(l) = {}
    \/ ~HasMarker(Payload(fmt, l))

\* C17: parse_line returns no record for a blank line, for a line whose
\* payload has no ':<CATEGORY> <LEVEL>:' marker and, in the systemd dialect,
\* for a line without the 'date host process[pid]:' prefix; for every other
\* line it returns a record whose raw_line is the line.
C17_RejectsOrKeepsRawLine ==
    parsed.called =>
        IF ToReject(format, line)
        THEN parsed.result.none
        ELSE ~parsed.result.none /\ Entry.raw_line = line

\* In the systemd dialect a line that has the marker and lacks the prefix
\* was rejected.
C17_Witness ==
    /\ Rejected
    /\ format = "systemd"
    /\ ~Blank(line)
    /\ HasMarker(line)
    /\ Envelopes(line) = {}

\* The digit strings written after a LockId label in the line, in the order
\* they were written (a LockId label followed by something else is none).
RECURSIVE LockIdsOf(_)
LockIdsOf(fs) ==
    IF fs = <<>> THEN <<>>
    ELSE IF fs[1].field = "lock_id" THEN fs[1].value \o LockIdsOf(Tail(fs))
    ELSE LockIdsOf(Tail(fs))

WrittenLockIds == LockIdsOf(written)

\* C18: the lock id list of an accepted line holds every 'LockId: <digits>'
\* occurrence of the payload, in order of occurrence and with duplicates
\* kept (one occurrence gives a one-element list); with no occurrence the
\* field is unset, not an empty list.
C18_LockIdsCollected ==
    Accepted =>
        /\ Entry.lock_id # <<>>
        /\ Entry.lock_id = IF WrittenLockIds = <<>> THEN UnsetList
                           ELSE WrittenLockIds

\* An accepted line carrying the same lock id twice, both collected.
C18_Witness ==
    /\ Accepted
    /\ Len(WrittenLockIds) = 2
    /\ WrittenLockIds[1] = WrittenLockIds[2]
    /\ Entry.lock_id = WrittenLockIds

\* The optional string fields of the record.
OptionalFields ==
    {"session_id", "trace_id", "phy_tx_id", "status", "query_text", "key",
     "issues", "tx_id", "query_action", "query_type", "component"}

\* The empty string, as opposed to the unset field.
EmptyString == <<>>

\* C19: no optional field of a record produced by parse_line is the empty
\* string; a label written with an empty value leaves its field unset.
C19_NoEmptyStringField ==
    Accepted => \A f \in OptionalFields : Entry[f] # EmptyString

\* The value parse_line should hand back for a field written as fragment f.
Injected(f) ==
    CASE f.field = "begin_tx" -> TRUE
      [] f.field = "break_lock_id" -> f.value
      [] f.field = "lock_id" -> WrittenLockIds
      [] OTHER -> f.value[1]

\* Fragment i carries a chosen value and its field is written once in the
\* line (the lock id label may be written any number of times).
Chosen(i) ==
    /\ written[i].value # <<>>
    /\ \/ written[i].field = "lock_id"
       \/ \A j \in 1..Len(written) :
              written[j].field = written[i].field => j = i

\* C20: round trip. Every field written into a line with a chosen value is
\* found in the record with exactly that value: the query text ends at the
\* first unescaped quote, its escaped quotes and newlines are literal again.
C20_RoundTrip ==
    Accepted =>
        \A i \in 1..Len(written) :
            Chosen(i) => Entry[written[i].field] = Injected(written[i])

\* The lines parse_stream has consumed, as it hands them to parse_line.
Consumed == [i \in 1..line_num |-> stream[i] \o <<NL>>]

\* Those of them parse_line accepts, in input order.
Kept == SelectSeq(Consumed, LAMBDA l : ~ToReject(format, l))

\* parse_stream has yielded exactly the records of the accepted lines, in
\* input order.
StreamYieldsAccepted ==
    /\ Len(yielded) = Len(Kept)
    /\ \A i \in 1..Len(yielded) :
           /\ yielded[i].raw_line = Kept[i]
           /\ yielded[i] = parse_line(format, Kept[i]).entry

\* What parse_stream leaves to its caller about the lines it skipped: it
\* returns nothing but the entries and sets no field of the parser, so the
\* warnings it prints are all there is.
RecordedRejections == Len(printed)

\* C21: parse_stream yields exactly the records of the lines parse_line
\* accepts, in input order, skipping the rejected lines, and the number of
\* rejected lines is recorded as a count for the caller.
C21_StreamYieldsAcceptedAndCounts ==
    /\ StreamYieldsAccepted
    /\ RecordedRejections = line_num - Len(Kept)

\* The number of times line l occurs in the sequence s.
Occurrences(s, l) == Cardinality({i \in 1..Len(s) : s[i] = l})

\* The items are the input lines: each line as often as the input has it.
SameLines(items, input) ==
    /\ Len(items) = Len(input)
    /\ \A i \in 1..Len(items) : Occurrences(items, items[i]) = Occurrences(input, items[i])

\* No item ends with a newline.
NoTrailingNewline(items) ==
    \A i \in 1..Len(items) : items[i] = <<>> \/ items[i][Len(items[i])] # NL

\* The timestamp column of a line: column 6 of a systemd line, column 1 of
\* a raw line.
Column(l) == sort_key(rstrip_newline(l), IF format = "systemd" THEN 6 ELSE 1)

\* No item has a smaller timestamp column than a later one.
Descending(items) ==
    \A i, j \in 1..Len(items) : i < j => ~Less(Column(items[i]), Column(items[j]))

\* C22: sort_log_stream yields exactly the input lines, one item per line
\* and each without a trailing newline, in descending order of the
\* timestamp column; an empty stream yields no items.
C22_SortedLines ==
    sorted.called =>
        /\ SameLines(sorted.items, stream)
        /\ NoTrailingNewline(sorted.items)
        /\ Descending(sorted.items)

----------------------------------------------------------------------------
\* Culprit resolution over the chains of one index list.

\* The chains indexed under the key in the index as the step leaves it.
IndexedAfter(index, key) == SeqRange(DictGet(index, key, <<>>))

\* The field of the chain was unset before the step (a chain the step
\* creates had no field set).
WasUnset(c, f) == c > Len(heap) \/ ~IsSet(heap[c][f])

\* The scanned record carries a usable value of the field.
Carries(e, f) == Truthy(e[f]) /\ e[f] # "Empty"

\* C23: when a record with physical-transaction id P and a non-empty trace
\* id T is scanned, every chain indexed under P whose culprit trace id is
\* still unset gets culprit trace id T and is indexed under T, even when
\* another chain indexed under P already holds a different culprit trace id.
C23_TraceReachesEveryWaitingChain ==
    [][ (Scans /\ Truthy(Last'.phy_tx_id) /\ Carries(Last', "trace_id")) =>
          \A c \in IndexedAfter(chains_by_culprit_phy_tx_id', Last'.phy_tx_id) :
              WasUnset(c, "culprit_trace_id") =>
                  /\ heap'[c].culprit_trace_id = Last'.trace_id
                  /\ c \in IndexedAfter(chains_by_culprit_trace_id', Last'.trace_id) ]_vars

\* C24: when a record with trace id T and session id S is scanned, every
\* chain indexed under culprit trace id T whose culprit session id is still
\* unset gets culprit session id S, even when another chain indexed under T
\* already holds a different culprit session id.
C24_SessionReachesEveryWaitingChain ==
    [][ (Scans /\ Truthy(Last'.trace_id) /\ Truthy(Last'.session_id)) =>
          \A c \in IndexedAfter(chains_by_culprit_trace_id', Last'.trace_id) :
              WasUnset(c, "culprit_session_id") =>
                  heap'[c].culprit_session_id = Last'.session_id ]_vars

\* C25: when a record with trace id T and a non-empty tx id X is scanned,
\* every chain indexed under culprit trace id T whose culprit tx id is unset
\* and whose culprit physical-transaction id differs from X gets culprit tx
\* id X, even when an earlier chain of the same index list already holds X,
\* holds a different tx id, or has X as its physical-transaction id.
C25_TxReachesEveryWaitingChain ==
    [][ (Scans /\ Truthy(Last'.trace_id) /\ Carries(Last', "tx_id")) =>
          \A c \in IndexedAfter(chains_by_culprit_trace_id', Last'.trace_id) :
              (/\ WasUnset(c, "culprit_tx_id")
               /\ heap'[c].culprit_phy_tx_id # Last'.tx_id) =>
                  heap'[c].culprit_tx_id = Last'.tx_id ]_vars

\* The chain that owns the lock id when the break event is applied, 0 when
\* there is none.
OwnerAfter(lock) == DictGet(chains_by_lock_id', lock, 0)

\* C26: a break event with physical-transaction id P that lists lock ids
\* owned by several chains assigns culprit physical-transaction id P to each
\* of those chains whose culprit is unset and whose victim
\* physical-transaction id is not P, and indexes each of them under P; a
\* skipped or conflicting chain does not stop the processing of the
\* remaining lock ids of the record.
C26_OnePhyTxServesManyChains ==
    [][ (Scans /\ Truthy(Last'.phy_tx_id)) =>
          \A i \in 1..Len(Last'.break_lock_id) :
              LET c == OwnerAfter(Last'.break_lock_id[i])
              IN  (/\ c # 0
                   /\ WasUnset(c, "culprit_phy_tx_id")
                   /\ heap'[c].victim_phy_tx_id # Last'.phy_tx_id) =>
                      /\ heap'[c].culprit_phy_tx_id = Last'.phy_tx_id
                      /\ c \in IndexedAfter(chains_by_culprit_phy_tx_id',
                                            Last'.phy_tx_id) ]_vars

\* The break event scanned last lists the lock of a chain it skips (the
\* chain's own physical transaction) before the lock of another chain, and
\* that chain has got the culprit from it.
C26_Witness ==
    /\ pc = "scan"
    /\ scanned # <<>>
    /\ \A i \in 1..(Len(scanned) - 1) : scanned[i].phy_tx_id # Last.phy_tx_id
                                         \/ scanned[i].break_lock_id = <<>>
    /\ \E i, j \in 1..Len(Last.break_lock_id) :
          LET c1 == DictGet(chains_by_lock_id, Last.break_lock_id[i], 0)
              c2 == DictGet(chains_by_lock_id, Last.break_lock_id[j], 0)
          IN  /\ i < j /\ c1 # 0 /\ c2 # 0 /\ c1 # c2
              /\ heap[c1].victim_phy_tx_id = Last.phy_tx_id
              /\ heap[c1].culprit_phy_tx_id # Last.phy_tx_id
              /\ heap[c2].culprit_phy_tx_id = Last.phy_tx_id
              /\ c2 \in SeqRange(DictGet(chains_by_culprit_phy_tx_id,
                                         Last.phy_tx_id, <<>>))

\* The same with a conflict: the first listed lock belongs to a chain that
\* holds another culprit, and the chain of a later lock has got the culprit
\* from the break event scanned last.
C26_WitnessConflict ==
    /\ pc = "scan"
    /\ scanned # <<>>
    /\ \A i \in 1..(Len(scanned) - 1) : scanned[i].phy_tx_id # Last.phy_tx_id
                                         \/ scanned[i].break_lock_id = <<>>
    /\ \E i, j \in 1..Len(Last.break_lock_id) :
          LET c1 == DictGet(chains_by_lock_id, Last.break_lock_id[i], 0)
              c2 == DictGet(chains_by_lock_id, Last.break_lock_id[j], 0)
          IN  /\ i < j /\ c1 # 0 /\ c2 # 0 /\ c1 # c2
              /\ heap[c1].victim_phy_tx_id # Last.phy_tx_id
              /\ IsSet(heap[c1].culprit_phy_tx_id)
              /\ heap[c1].culprit_phy_tx_id # Last.phy_tx_id
              /\ heap[c2].culprit_phy_tx_id = Last.phy_tx_id

\* C27: the placeholder value 'Empty' is never adopted as a culprit
\* identity: no chain has culprit trace id 'Empty' or culprit tx id 'Empty',
\* and no chain is indexed under culprit trace id 'Empty'.
C27_PlaceholderNeverAdopted ==
    /\ \A c \in 1..Len(heap) :
          /\ heap[c].culprit_trace_id # "Empty"
          /\ heap[c].culprit_tx_id # "Empty"
    /\ ~DictHas(chains_by_culprit_trace_id, "Empty")

\* Records with the placeholder have reached chains that could have taken
\* it: one with trace id 'Empty' of the physical transaction a chain waits
\* on, and one with tx id 'Empty' of the trace a chain waits on.
C27_Witness ==
    /\ \E i \in 1..Len(scanned) :
          /\ scanned[i].trace_id = "Empty"
          /\ \E c \in 1..Len(heap) :
                /\ heap[c].culprit_phy_tx_id = scanned[i].phy_tx_id
                /\ \A j \in 1..(i - 1) :
                      scanned[j].phy_tx_id = scanned[i].phy_tx_id =>
                          ~Carries(scanned[j], "trace_id")
                /\ \E j \in 1..(i - 1) : scanned[j].break_lock_id # <<>>
    /\ \E i \in 1..Len(scanned) :
          /\ scanned[i].tx_id = "Empty"
          /\ \E c \in 1..Len(heap) :
                /\ heap[c].culprit_trace_id = scanned[i].trace_id
                /\ \E j \in 1..i :
                      /\ scanned[j].trace_id = scanned[i].trace_id
                      /\ scanned[j].phy_tx_id = heap[c].culprit_phy_tx_id
                      /\ \E k \in 1..(j - 1) :
                            /\ scanned[k].break_lock_id # <<>>
                            /\ scanned[k].phy_tx_id = scanned[j].phy_tx_id
                /\ \A j \in 1..(i - 1) : ~Carries(scanned[j], "tx_id")
                                          \/ scanned[j].trace_id # scanned[i].trace_id

----------------------------------------------------------------------------
\* The trace-representative cache.

\* The position in the stream of the record cached for the trace, NoEntry
\* when there is none.
CachedFor(cache, t) == DictGet(cache, t, NoEntry)

\* The record scanned by the step adds to the cached one what it lacks: a
\* session id, or else query text.
Upgrades(e, old) ==
    \/ Truthy(e.session_id) /\ ~Truthy(old.session_id)
    \/ Truthy(e.query_text) /\ ~Truthy(old.query_text)

\* C28: for each trace id other than 'Empty', the first scanned record of
\* that trace is cached, and the cached record is replaced by a later-scanned
\* record of the same trace only when the later record has a session id and
\* the cached one has none, or (that not being the case) the later record has
\* query text and the cached one has none; in every other case the cached
\* record is unchanged.
C28_TraceRepresentativeCache ==
    [][ /\ Scans =>
             LET e == Last'
                 old == CachedFor(entries_by_trace, e.trace_id)
             IN  /\ Carries(e, "trace_id") =>
                       CachedFor(entries_by_trace', e.trace_id) =
                           IF old = NoEntry THEN Len(scanned')
                           ELSE IF Upgrades(e, scanned[old]) THEN Len(scanned')
                           ELSE old
                 /\ \A t \in DictKeys(entries_by_trace) \cup DictKeys(entries_by_trace') :
                       (t # e.trace_id \/ ~Carries(e, "trace_id")) =>
                           CachedFor(entries_by_trace', t) =
                               CachedFor(entries_by_trace, t)
        /\ ~Scans => entries_by_trace' = entries_by_trace
        /\ \A t \in DictKeys(entries_by_trace') :
              /\ t \notin {"Empty", None, ""}
              /\ scanned'[CachedFor(entries_by_trace', t)].trace_id = t ]_vars

\* The record scanned last, with query text and without session id, has
\* replaced a cached record of its trace that had no query text.
C28_Witness ==
    /\ pc = "scan"
    /\ Len(scanned) > 1
    /\ Truthy(Last.query_text) /\ ~Truthy(Last.session_id)
    /\ CachedFor(entries_by_trace, Last.trace_id) = Len(scanned)
    /\ \E i \in 1..(Len(scanned) - 1) : scanned[i].trace_id = Last.trace_id
    /\ \A i \in 1..(Len(scanned) - 1) :
          scanned[i].trace_id = Last.trace_id => ~Truthy(scanned[i].query_text)

\* C29: after finalization, every chain whose culprit trace id is set has a
\* culprit representative record, that record's trace id equals the chain's
\* culprit trace id and it is the record cached for that trace at the end of
\* the scan; every chain whose culprit trace id is unset has no culprit
\* representative record.
C29_CulpritRepresentative ==
    pc = "done" =>
        \A ch \in ReturnedChains :
            IF IsSet(ch.culprit_trace_id)
            THEN /\ ch.culprit_entry # NoEntry
                 /\ scanned[ch.culprit_entry].trace_id = ch.culprit_trace_id
                 /\ ch.culprit_entry = CachedFor(entries_by_trace, ch.culprit_trace_id)
            ELSE ch.culprit_entry = NoEntry

\* A returned chain has as its culprit's representative a record that
\* replaced an earlier record of the culprit's trace in the cache, and
\* another returned chain has no culprit trace and no representative.
C29_Witness ==
    /\ pc = "done"
    /\ \E ch \in ReturnedChains :
          /\ IsSet(ch.culprit_trace_id)
          /\ ch.culprit_entry # NoEntry
          /\ \E j \in 1..(ch.culprit_entry - 1) :
                scanned[j].trace_id = ch.culprit_trace_id
    /\ \E ch \in ReturnedChains :
          ~IsSet(ch.culprit_trace_id) /\ ch.culprit_entry = NoEntry

----------------------------------------------------------------------------
\* One forward pass.

\* The record at position i of the stream registers the chain's lock id: a
\* LOCKS_BROKEN record of the victim's trace whose first lock id it is.
Registers(i, ch) ==
    /\ scanned[i].status = "LOCKS_BROKEN"
    /\ scanned[i].trace_id = ch.victim_trace_id
    /\ scanned[i].lock_id # <<>>
    /\ scanned[i].lock_id[1] = ch.lock_id

\* The record at position j names the chain's lock id as broken by the
\* chain's culprit.
Breaks(j, ch) ==
    /\ ch.lock_id \in SeqRange(scanned[j].break_lock_id)
    /\ scanned[j].phy_tx_id = ch.culprit_phy_tx_id

\* C30: a record is applied only against the chains and index entries that
\* exist when it is scanned: the lock id of a chain comes from a LOCKS_BROKEN
\* record scanned no earlier than the chain's invalidation record, and its
\* culprit from a break event scanned no earlier than the record that
\* registered the lock id; records scanned before that set nothing, and the
\* chain is returned with those fields unset.
C30_NoLookAhead ==
    \A c \in 1..Len(heap) :
        LET ch == heap[c]
            scans == ch.victim_entry..Len(scanned)
        IN  /\ IsSet(ch.lock_id) => \E i \in scans : Registers(i, ch)
            /\ IsSet(ch.culprit_phy_tx_id) =>
                  \E i \in scans : /\ Registers(i, ch)
                                   /\ \E j \in i..Len(scanned) : Breaks(j, ch)
            /\ (pc = "done" /\ DictGet(chains, ch.victim_trace_id, 0) = c) =>
                  c \in SeqRange(returned)

\* The run has returned two chains: one without lock id although a
\* LOCKS_BROKEN record of its trace was scanned, before its invalidation
\* record, and one with its lock id and without culprit although a break
\* event naming that lock id was scanned, before the lock id was registered.
C30_Witness ==
    /\ pc = "done"
    /\ \E ch \in ReturnedChains :
          /\ ~IsSet(ch.lock_id)
          /\ \E i \in 1..(ch.victim_entry - 1) :
                /\ scanned[i].status = "LOCKS_BROKEN"
                /\ scanned[i].trace_id = ch.victim_trace_id
                /\ scanned[i].lock_id # <<>>
    /\ \E ch \in ReturnedChains :
          /\ IsSet(ch.lock_id)
          /\ ~IsSet(ch.culprit_phy_tx_id)
          /\ \E i \in ch.victim_entry..Len(scanned) :
                /\ Registers(i, ch)
                /\ \E j \in 1..(i - 1) :
                      /\ ch.lock_id \in SeqRange(scanned[j].break_lock_id)
                      /\ Truthy(scanned[j].phy_tx_id)
                      /\ scanned[j].phy_tx_id # ch.victim_phy_tx_id

----------------------------------------------------------------------------
\* The order of the steps within one record.

\* The chain of the record's trace as the step leaves it, 0 when there is
\* none.
VictimAfter(e) == DictGet(chains', e.trace_id, 0)

\* The record is a LOCKS_BROKEN record with a physical-transaction id whose
\* lock id is also among the locks it reports as broken.
SelfNotification(e) ==
    /\ e.status = "LOCKS_BROKEN"
    /\ Truthy(e.phy_tx_id)
    /\ e.lock_id # <<>>
    /\ e.lock_id[1] \in SeqRange(e.break_lock_id)

\* The victim's self-notification records its physical-transaction id as the
\* victim's and does not make it the culprit.
VictimFirst ==
    LET e == Last'
        c == VictimAfter(e)
    IN  (/\ SelfNotification(e)
         /\ c # 0
         /\ WasUnset(c, "victim_phy_tx_id")) =>
            /\ heap'[c].victim_phy_tx_id = e.phy_tx_id
            /\ WasUnset(c, "culprit_phy_tx_id") =>
                  heap'[c].culprit_phy_tx_id # e.phy_tx_id

\* The record is a break event that carries the culprit's trace id, session
\* id and tx id.
FullBreakRecord(e) ==
    /\ e.break_lock_id # <<>>
    /\ Truthy(e.phy_tx_id)
    /\ Carries(e, "trace_id")
    /\ Truthy(e.session_id)
    /\ Carries(e, "tx_id")
    /\ e.tx_id # e.phy_tx_id

\* Every chain that takes its culprit from the break record takes the
\* culprit's trace, session and tx id from it in the same step.
AllInOneStep ==
    LET e == Last'
    IN  FullBreakRecord(e) =>
            \A i \in 1..Len(e.break_lock_id) :
                LET c == OwnerAfter(e.break_lock_id[i])
                IN  (/\ c # 0
                     /\ WasUnset(c, "culprit_phy_tx_id")
                     /\ heap'[c].victim_phy_tx_id # e.phy_tx_id) =>
                        /\ heap'[c].culprit_phy_tx_id = e.phy_tx_id
                        /\ heap'[c].culprit_trace_id = e.trace_id
                        /\ heap'[c].culprit_session_id = e.session_id
                        /\ heap'[c].culprit_tx_id = e.tx_id

\* C31: the steps all fire on one record in the order chain creation,
\* victim physical-transaction id, lock id, culprit physical-transaction id,
\* culprit trace id, culprit session and tx id: the victim's LOCKS_BROKEN
\* record with physical-transaction id P and lock id L that lists L among
\* its broken locks records P as the victim's id and never makes P the
\* culprit, and a break record that carries a trace id, session id and tx id
\* fills the culprit's physical-transaction, trace, session and tx ids in
\* that one step.
C31_StepsInOrderOnOneRecord ==
    [][ Scans => (VictimFirst /\ AllInOneStep) ]_vars

\* The record is a query that names a session and no tx id.
QueryWithoutTx(e) ==
    Truthy(e.query_action) /\ Truthy(e.session_id) /\ ~Truthy(e.tx_id)

\* C32: within one record, query accumulation runs before
\* active-transaction tracking: a query record without tx id is attributed
\* using the session's active-transaction entry as it was before this
\* record, so a begin-transaction query record without tx id is itself
\* attributed to the transaction that was active for its session, and only
\* afterwards is the session's entry cleared.
C32_QueryBeforeSessionTracking ==
    [][ (Scans /\ QueryWithoutTx(Last')) =>
          LET e == Last'
              active == DictGet(session_current_tx, e.session_id, None)
          IN  /\ IF Truthy(active)
                 THEN /\ DictGet(queries_by_tx', active, <<>>) =
                            Append(DictGet(queries_by_tx, active, <<>>), Len(scanned'))
                      /\ \A t \in DictKeys(queries_by_tx') \ {active} :
                            DictGet(queries_by_tx', t, <<>>) = DictGet(queries_by_tx, t, <<>>)
                 ELSE queries_by_tx' = queries_by_tx
              /\ IF e.begin_tx
                 THEN /\ ~DictHas(session_current_tx', e.session_id)
                      /\ \A ses \in DictKeys(session_current_tx) \ {e.session_id} :
                            DictGet(session_current_tx', ses, None) =
                                DictGet(session_current_tx, ses, None)
                 ELSE session_current_tx' = session_current_tx ]_vars

\* The record scanned last is a begin-transaction query without tx id; it
\* is in the query list of the transaction an earlier record paired with its
\* session, and the session has no active transaction any more.
C32_Witness ==
    /\ pc = "scan"
    /\ scanned # <<>>
    /\ QueryWithoutTx(Last) /\ Last.begin_tx
    /\ ~DictHas(session_current_tx, Last.session_id)
    /\ \E i \in 1..(Len(scanned) - 1) :
          /\ scanned[i].session_id = Last.session_id
          /\ Carries(scanned[i], "tx_id")
          /\ \A j \in (i + 1)..(Len(scanned) - 1) :
                scanned[j].session_id # Last.session_id
          /\ Len(scanned) \in SeqRange(DictGet(queries_by_tx, scanned[i].tx_id, <<>>))

----------------------------------------------------------------------------
\* The indexes of the chains.

\* The chains of self.chains, one for each victim trace.
CurrentChains == SeqRange(DictValues(chains))

\* C33: the broken-lock index maps each lock id to the one chain that owns
\* it: no two chains have the same lock id, and every chain whose lock id
\* is L is the chain stored under L in the index, so that a later break
\* event naming L can resolve that chain's culprit.
C33_LockIndexOwnsChain ==
    /\ \A c1, c2 \in CurrentChains :
          (IsSet(heap[c1].lock_id) /\ heap[c1].lock_id = heap[c2].lock_id) => c1 = c2
    /\ \A c \in CurrentChains :
          IsSet(heap[c].lock_id) => DictGet(chains_by_lock_id, heap[c].lock_id, 0) = c

----------------------------------------------------------------------------
\* Fields and their labels.

\* The word that opens the label of each optional field.
LabelWord ==
    [session_id |-> "SessionId", trace_id |-> "TraceId", phy_tx_id |-> "Phy",
     status |-> "Status", query_text |-> "QueryText", key |-> "Key",
     issues |-> "Issues", tx_id |-> "TxId", query_action |-> "QueryAction",
     query_type |-> "QueryType", component |-> "Component"]

\* The label of field f occurs in the text l as a label of its own: the
\* 'TxId' that ends 'PhyTxId' is not a label of the tx id.
OwnLabelIn(f, l) ==
    \E i \in 1..Len(l) :
        /\ l[i] = LabelWord[f]
        /\ f = "tx_id" => (i = 1 \/ l[i - 1] # "Phy")

\* A string field of the parsed record as the correlator reads it.
Text(v) == IF v = <<>> THEN "" ELSE v[1]

\* What _collect_session_tx reads of the parsed record.
AsScanned(entry) ==
    [session_id |-> Text(entry.session_id), tx_id |-> Text(entry.tx_id),
     begin_tx |-> entry.begin_tx]

\* C34: a field of the parsed record is set only if its own label occurs in
\* the payload: a payload carrying 'PhyTxId: <digits>' and no separate
\* 'TxId:' label yields a record with the physical-transaction id set and
\* the logical-transaction id unset, so that such a record with a session id
\* does not mark the physical-transaction id as the session's active
\* transaction in the correlator.
C34_FieldNeedsItsLabel ==
    Accepted =>
        /\ \A f \in OptionalFields : Entry[f] # Unset => OwnLabelIn(f, line)
        /\ (OwnLabelIn("phy_tx_id", line) /\ ~OwnLabelIn("tx_id", line)) =>
              /\ Entry.phy_tx_id # Unset
              /\ Entry.tx_id = Unset
              /\ collect_session_tx(Self, AsScanned(Entry)).session_current_tx = <<>>

\* C35: after any prefix of the scan, every chain stored under lock id L in
\* the lock index has lock id L; every chain listed under
\* physical-transaction id P in the culprit-phy-tx index has culprit
\* physical-transaction id P; every chain listed under trace id T in the
\* culprit-trace index has culprit trace id T; and no chain occurs more than
\* once in any index list.
C35_IndexesConsistent ==
    /\ \A i \in 1..Len(chains_by_lock_id) :
          heap[chains_by_lock_id[i].v].lock_id = chains_by_lock_id[i].k
    /\ \A i \in 1..Len(chains_by_culprit_phy_tx_id) :
          /\ NoDuplicates(chains_by_culprit_phy_tx_id[i].v)
          /\ \A c \in SeqRange(chains_by_culprit_phy_tx_id[i].v) :
                heap[c].culprit_phy_tx_id = chains_by_culprit_phy_tx_id[i].k
    /\ \A i \in 1..Len(chains_by_culprit_trace_id) :
          /\ NoDuplicates(chains_by_culprit_trace_id[i].v)
          /\ \A c \in SeqRange(chains_by_culprit_trace_id[i].v) :
                heap[c].culprit_trace_id = chains_by_culprit_trace_id[i].k

\* Two chains are in the lock index, two are listed under one culprit
\* physical-transaction id and two under one culprit trace id.
C35_Witness ==
    /\ pc = "scan"
    /\ Len(chains_by_lock_id) >= 2
    /\ \E i \in 1..Len(chains_by_culprit_phy_tx_id) :
          Len(chains_by_culprit_phy_tx_id[i].v) >= 2
    /\ \E i \in 1..Len(chains_by_culprit_trace_id) :
          Len(chains_by_culprit_trace_id[i].v) >= 2

\* C36: resolution proceeds strictly along the chain: for every chain,
\* culprit session id set or culprit tx id set implies culprit trace id set,
\* culprit trace id set implies culprit physical-transaction id set, and
\* culprit physical-transaction id set implies lock id set.
C36_ResolvedAlongTheChain ==
    \A c \in 1..Len(heap) :
        /\ (IsSet(heap[c].culprit_session_id) \/ IsSet(heap[c].culprit_tx_id)) =>
              IsSet(heap[c].culprit_trace_id)
        /\ IsSet(heap[c].culprit_trace_id) => IsSet(heap[c].culprit_phy_tx_id)
        /\ IsSet(heap[c].culprit_phy_tx_id) => IsSet(heap[c].lock_id)

\* Chains at two stages: one with the culprit's physical transaction and
\* no trace although a record of that transaction with a trace id was
\* scanned, and one resolved to the session and the tx id.
C36_Witness ==
    /\ \E i \in 1..Len(scanned) : \E c \in 1..Len(heap) :
          /\ IsSet(heap[c].culprit_phy_tx_id) /\ ~IsSet(heap[c].culprit_trace_id)
          /\ heap[c].culprit_phy_tx_id = scanned[i].phy_tx_id
          /\ Carries(scanned[i], "trace_id")
    /\ \E c \in 1..Len(heap) :
          IsSet(heap[c].culprit_session_id) /\ IsSet(heap[c].culprit_tx_id)

\* C37: in every returned chain in which both the victim and the culprit
\* physical-transaction id are set, the two differ, whatever the order in
\* which the victim's LOCKS_BROKEN records (with or without a
\* physical-transaction id) and the break events were scanned.
C37_VictimIsNotItsCulprit ==
    pc = "done" =>
        \A ch \in ReturnedChains :
            (IsSet(ch.victim_phy_tx_id) /\ IsSet(ch.culprit_phy_tx_id)) =>
                ch.victim_phy_tx_id # ch.culprit_phy_tx_id

\* C38: no query record is ever accumulated under the placeholder
\* transaction id 'Empty', neither directly nor through session inference:
\* the query accumulator has no list for 'Empty', and the session
\* active-transaction table never holds 'Empty'.
C38_NoQueryUnderPlaceholder ==
    /\ ~DictHas(queries_by_tx, "Empty")
    /\ \A i \in 1..Len(session_current_tx) : session_current_tx[i].v # "Empty"

\* The record cached for trace t has a session id.
CachedWithSession(cache, log, t) ==
    /\ DictHas(cache, t)
    /\ Truthy(log[CachedFor(cache, t)].session_id)

\* C39: the cached trace representative never loses a session id: once the
\* record cached for a trace id has a session id, every record cached for
\* that trace id later in the scan also has a session id.
C39_CacheKeepsSessionId ==
    [][ \A t \in DictKeys(entries_by_trace) :
          CachedWithSession(entries_by_trace, scanned, t) =>
              CachedWithSession(entries_by_trace', scanned', t) ]_vars

====
